---- MODULE Spec2Model ----
(***************************************************************************)
(* A model of Read-Aloud-AI: the resilient call executor                   *)
(* (src/openai_api_utils/__init__.py), the page-by-page reformatting loop  *)
(* (src/inference.py, format_text_for_tts), and the pause-aware audio      *)
(* assembly (src/inference.py, convert_text_to_speech, and                 *)
(* src/tts/controller.py, _chunk_text).                                    *)
(*                                                                         *)
(* Each component has its own specification over the shared variables; a   *)
(* specification keeps the variables of the other components at their idle *)
(* values.                                                                 *)
(***************************************************************************)
EXTENDS Integers, Sequences, FiniteSets, TLC

(***************************************************************************)
(* Program constants (src/utils/constants.py).                             *)
(***************************************************************************)
MAX_INFERENCE_RETRIES == 3

SEND_REQUEST_TIMEOUT == 60

TIME_BETWEEN_RATE_LIMIT_RETRIES == 61

SAMPLE_RATE == 24000

(***************************************************************************)
(* Bounds of the model.                                                    *)
(***************************************************************************)
\* max_attempts ranges over 1..MaxAttempts (the default, 3, included).
MaxAttempts == 3

VARIABLES
    \* ---- attempt_function_call / call_function_with_timeout ----
    pc,            \* where the caller is: idle, loop, join, joined, sleep, returned, raised
    max_attempts,  \* the argument max_attempts
    loop_i,        \* iterations of `for _ in range(max_attempts)` begun
    num_attempts,  \* the local num_attempts
    calls,         \* invocations of call_function_with_timeout so far (the current frame)
    thread,        \* thread[k]: the worker thread of invocation k
    result,        \* result[c]: the list `result` of the frame owning cell c
    exception,     \* exception[c]: the list `exception` of the frame owning cell c
    returned,      \* the tuple returned by attempt_function_call
    raised,        \* the exception attempt_function_call propagated
    timeout,       \* the timeout argument of the current join
    outcome,       \* history: how invocation k ended, as the caller saw it
    expired,       \* history: join(timeout) of invocation k ended by the deadline
    slept,         \* history: seconds slept after the failure of attempt k
    \* ---- format_text_for_tts ----
    fpc,                      \* idle, loop, await, done, raised
    text_chunks,              \* the argument text_chunks: the cleaned text of each page
    page_id,                  \* the loop index
    formatted_document_text,  \* the running narration
    fmt_returned,             \* the value format_text_for_tts returned
    fmt_raised,               \* the exception format_text_for_tts propagated
    requests,                 \* history: the send_request calls issued
    received,                 \* history: the response messages received
    \* ---- TTSModelClient._chunk_text ----
    cpc,                      \* idle, loop, done
    chunk_text,               \* the argument text
    max_words,                \* the argument max_words
    sentences,                \* the sentences the for loop has yet to visit
    current_chunk,            \* the local current_chunk
    small_chunks_for_tts,     \* the local small_chunks_for_tts
    chunks_returned,          \* the list _chunk_text returned
    packed,                   \* history: the sentences put into each closed chunk
    packing,                  \* history: the sentences put into current_chunk
    \* ---- convert_text_to_speech ----
    tpc,                      \* idle, loop, done, raised
    narration,                \* the argument text
    fragments,                \* history: the pieces the narration was written from
    duration_tenths,          \* the argument duration_of_pauses, in tenths of a second
    text_split_by_pauses,     \* the segments the for loop has yet to visit
    text_chunk_id,            \* the loop index
    audio_chunks,             \* the local audio_chunks
    audio,                    \* the waveform convert_text_to_speech returned
    synth_calls,              \* history: the texts passed to client.text_to_speech
    \* ---- detect_header_footer ----
    hpc,                      \* idle, loop, done
    document,                 \* the pages of the document, each the lines of its text
    max_selected_lines,       \* the argument max_selected_lines
    hf_page_id,               \* the loop index
    first_last_lines,         \* the local first_last_lines
    header_footer_lines,      \* the set detect_header_footer returned
    \* ---- PDFReaderController.format_text ----
    ppc,                      \* idle, loop, done, again
    para_input,               \* history: the lines the argument text was written from
    para_text,                \* the argument text
    para_tables,              \* the argument markdown_tables_in_pages
    para_lines,               \* the local lines
    para_line_id,             \* the loop index
    paragraph,                \* the local paragraph
    formatted_text,           \* the local formatted_text
    para_returned,            \* the string format_text returned
    para_second,              \* the string format_text returned for para_returned
    completed,                \* history: the values of is_paragraph_completed, by line_id
    \* ---- extract_formatted_text: the tables of one page ----
    rpc,                      \* idle, tag, correct, dedup, format, done
    tbl_page_id,              \* page_id
    tables,                   \* markdown_tables_in_pages[page_id]
    raw_lines,                \* history: page_lines before any line was tagged
    page_lines,               \* the local page_lines
    tbl_i,                    \* the index of the loop that is running
    lines_ids_w_table_content,
    seen_full_tables,
    lines_ids_to_remove,
    first_tags,               \* history: page_lines after the first-match loop
    corrected_tags,           \* history: page_lines after the correction loop
    page_text,                \* the text of the page that format_text returned
    \* ---- extract_formatted_text and extract_text_from_pdf: the pages ----
    xpc,                      \* idle, loop, returned, raised
    ext_impl,                 \* which of the two functions runs
    ext_doc,                  \* the pages of the document, each the lines of its text
    ext_pages,                \* the page ids the loop visits: pages or range(len(pdf))
    ext_fail,                 \* the page ids on which get_text_bounded() raises
    ext_k,                    \* pages of ext_pages visited so far
    ext_header_footer,        \* the local header_footer_lines
    pdf_text,                 \* the local pdf_text of extract_formatted_text
    text_from_pages,          \* the local text_from_pages of extract_text_from_pdf
    ext_returned,             \* what the function returned: a string or a list of strings
    \* ---- generate_podcast_from_file ----
    gpc,                      \* idle, start, listing, tts, check, pages, extract, format,
                              \* await, speech, returned, raised
    gemini_api_key,           \* the argument gemini_api_key
    file_format,              \* the MIME type get_file_format finds for the argument file
    pod_pages_arg,            \* the argument pages, a string
    pod_doc,                  \* the pages of the file, each the lines of its text
    pod_duration,             \* the argument duration_of_pauses, in tenths of a second
    pod_pages,                \* the local pages after validate_input_pages
    pod_texts,                \* the local text_from_pages
    pod_page,                 \* pages reformatted so far
    pod_narration,            \* the narration format_text_for_tts has built
    pod_segments,             \* the segments convert_text_to_speech has yet to visit
    pod_audio_chunks,         \* the audio_chunks of convert_text_to_speech
    pod_result,               \* how the run ended: the tuple returned or the gr.Error raised
    remote_calls,             \* history: the calls made to the remote API
    pod_synth,                \* history: the segments synthesized
    errors_raised             \* history: the number of gr.Error raised

execVars == <<pc, max_attempts, loop_i, num_attempts, calls, thread, result,
              exception, returned, raised, timeout, outcome, expired, slept>>

fmtVars == <<fpc, text_chunks, page_id, formatted_document_text, fmt_returned,
             fmt_raised, requests, received>>

chunkVars == <<cpc, chunk_text, max_words, sentences, current_chunk,
               small_chunks_for_tts, chunks_returned, packed, packing>>

ttsVars == <<tpc, narration, fragments, duration_tenths, text_split_by_pauses,
             text_chunk_id, audio_chunks, audio, synth_calls>>

hfVars == <<hpc, document, max_selected_lines, hf_page_id, first_last_lines,
            header_footer_lines>>

paraVars == <<ppc, para_input, para_text, para_tables, para_lines, para_line_id,
              paragraph, formatted_text, para_returned, para_second, completed>>

tblVars == <<rpc, tbl_page_id, tables, raw_lines, page_lines, tbl_i,
             lines_ids_w_table_content, seen_full_tables, lines_ids_to_remove,
             first_tags, corrected_tags, page_text>>

extVars == <<xpc, ext_impl, ext_doc, ext_pages, ext_fail, ext_k, ext_header_footer,
             pdf_text, text_from_pages, ext_returned>>

\* the variables of the PDF reader
pdfVars == <<hfVars, paraVars, tblVars, extVars>>

podVars == <<gpc, gemini_api_key, file_format, pod_pages_arg, pod_doc, pod_duration,
             pod_pages, pod_texts, pod_page, pod_narration, pod_segments,
             pod_audio_chunks, pod_result, remote_calls, pod_synth, errors_raised>>

vars == <<execVars, fmtVars, chunkVars, ttsVars, pdfVars, podVars>>

(***************************************************************************)
(* The idle values of each component.                                      *)
(***************************************************************************)
FmtIdle ==
    /\ fpc = "idle"
    /\ text_chunks = <<>>
    /\ page_id = 0
    /\ formatted_document_text = <<>>
    /\ fmt_returned = [set |-> FALSE, text |-> <<>>]
    /\ fmt_raised = "None"
    /\ requests = <<>>
    /\ received = <<>>

ChunkIdle ==
    /\ cpc = "idle"
    /\ chunk_text = <<>>
    /\ max_words = 0
    /\ sentences = <<>>
    /\ current_chunk = <<>>
    /\ small_chunks_for_tts = <<>>
    /\ chunks_returned = <<>>
    /\ packed = <<>>
    /\ packing = <<>>

TtsIdle ==
    /\ tpc = "idle"
    /\ narration = <<>>
    /\ fragments = <<>>
    /\ duration_tenths = 0
    /\ text_split_by_pauses = <<>>
    /\ text_chunk_id = 0
    /\ audio_chunks = <<>>
    /\ audio = <<>>
    /\ synth_calls = <<>>

HfIdle ==
    /\ hpc = "idle"
    /\ document = <<>>
    /\ max_selected_lines = 0
    /\ hf_page_id = 0
    /\ first_last_lines = <<>>
    /\ header_footer_lines = {}

ParaIdle ==
    /\ ppc = "idle"
    /\ para_input = <<>>
    /\ para_text = <<>>
    /\ para_tables = <<>>
    /\ para_lines = <<>>
    /\ para_line_id = 0
    /\ paragraph = <<>>
    /\ formatted_text = <<>>
    /\ para_returned = <<>>
    /\ para_second = <<>>
    /\ completed = <<>>

TblIdle ==
    /\ rpc = "idle"
    /\ tbl_page_id = 0
    /\ tables = <<>>
    /\ raw_lines = <<>>
    /\ page_lines = <<>>
    /\ tbl_i = 0
    /\ lines_ids_w_table_content = <<>>
    /\ seen_full_tables = <<>>
    /\ lines_ids_to_remove = <<>>
    /\ first_tags = <<>>
    /\ corrected_tags = <<>>
    /\ page_text = <<>>

ExtIdle ==
    /\ xpc = "idle"
    /\ ext_impl = "none"
    /\ ext_doc = <<>>
    /\ ext_pages = <<>>
    /\ ext_fail = {}
    /\ ext_k = 0
    /\ ext_header_footer = {}
    /\ pdf_text = <<>>
    /\ text_from_pages = <<>>
    /\ ext_returned = <<>>

PodIdle ==
    /\ gpc = "idle"
    /\ gemini_api_key = <<>>
    /\ file_format = "none"
    /\ pod_pages_arg = <<>>
    /\ pod_doc = <<>>
    /\ pod_duration = 0
    /\ pod_pages = [none |-> TRUE, ids |-> <<>>]
    /\ pod_texts = <<>>
    /\ pod_page = 0
    /\ pod_narration = <<>>
    /\ pod_segments = <<>>
    /\ pod_audio_chunks = <<>>
    /\ pod_result = [kind |-> "none", rate |-> 0, audio |-> <<>>, message |-> "none"]
    /\ remote_calls = <<>>
    /\ pod_synth = <<>>
    /\ errors_raised = 0

PdfIdle == HfIdle /\ ParaIdle /\ TblIdle /\ ExtIdle

(***************************************************************************)
(* The resilient call executor: src/openai_api_utils/__init__.py           *)
(***************************************************************************)
Attempts == 1..MaxAttempts

\* Python objects of the executor: None, the value func returns, and the
\* exceptions.  `by` is the identity of the invocation that created the object.
None == [cls |-> "None", openai_error |-> "", by |-> 0]

ResultOf(k) == [cls |-> "Result", openai_error |-> "", by |-> k]

\* OpenAIAPICallError(openai_error=..., ...), src/utils/custom_exceptions.py
OpenAIAPICallError(err, k) == [cls |-> "OpenAIAPICallError", openai_error |-> err, by |-> k]

\* any exception of func that is no OpenAIAPICallError
OtherException(k) == [cls |-> "Exception", openai_error |-> "", by |-> k]

FunctionCallTimeoutError(k) == [cls |-> "FunctionCallTimeoutError", openai_error |-> "", by |-> k]

\* what func can raise in invocation k
FuncExceptions(k) ==
    { OpenAIAPICallError("RateLimitError", k),
      OpenAIAPICallError("APIConnectionError", k),
      OtherException(k) }

\* isinstance(e, OpenAIAPICallError) and e.openai_error == "RateLimitError"
IsRateLimit(e) == e.cls = "OpenAIAPICallError" /\ e.openai_error = "RateLimitError"

\* `if exception[0]:` an exception object is truthy, None is not
Truthy(x) == x.cls # "None"

MutantSharedCell(k) == 1

\* `result = [None]` and `exception = [None]` are fresh lists of each
\* invocation of call_function_with_timeout: invocation k owns cell k.
CellOf(k) == k

MutantStaleNumAttempts(n) == n

\* num_attempts += 1
NextNumAttempts(n) == n + 1

MutantHandlerRaisesTimeoutAtOnce(e, n, max) ==
    IF n = max \/ e.cls = "FunctionCallTimeoutError" THEN "raise"
    ELSE IF IsRateLimit(e) THEN "sleep"
    ELSE "retry"

MutantHandlerRaisesOtherAtOnce(e, n, max) ==
    IF n = max THEN "raise"
    ELSE IF IsRateLimit(e) THEN "sleep"
    ELSE IF e.cls = "FunctionCallTimeoutError" THEN "retry"
    ELSE "raise"

MutantHandlerSleepsFirst(e, n, max) ==
    IF IsRateLimit(e) THEN "sleep"
    ELSE IF n = max THEN "raise"
    ELSE "retry"

\* The except clause of attempt_function_call: re-raise on the last attempt,
\* sleep on the rate-limit class, otherwise fall through to the next iteration.
ExceptionHandler(e, n, max) ==
    IF n = max THEN "raise"
    ELSE IF IsRateLimit(e) THEN "sleep"
    ELSE "retry"

\* how the caller saw an invocation end
OutcomeOf(e) ==
    IF e.cls = "FunctionCallTimeoutError" THEN "timeout"
    ELSE IF IsRateLimit(e) THEN "ratelimit"
    ELSE "error"

ExecIdle ==
    /\ pc = "idle"
    /\ max_attempts = 0
    /\ loop_i = 0
    /\ num_attempts = 0
    /\ calls = 0
    /\ thread = [k \in Attempts |-> "unstarted"]
    /\ result = [k \in Attempts |-> None]
    /\ exception = [k \in Attempts |-> None]
    /\ returned = [result |-> None, num_attempts |-> 0]
    /\ raised = None
    /\ timeout = 0
    /\ outcome = [k \in Attempts |-> "none"]
    /\ expired = [k \in Attempts |-> FALSE]
    /\ slept = [k \in Attempts |-> 0]

\* attempt_function_call(func, max_attempts) is entered: num_attempts = 0
InitExec ==
    /\ pc = "loop"
    /\ max_attempts \in 1..MaxAttempts
    /\ loop_i = 0
    /\ num_attempts = 0
    /\ calls = 0
    /\ thread = [k \in Attempts |-> "unstarted"]
    /\ result = [k \in Attempts |-> None]
    /\ exception = [k \in Attempts |-> None]
    /\ returned = [result |-> None, num_attempts |-> 0]
    /\ raised = None
    /\ timeout = 0
    /\ outcome = [k \in Attempts |-> "none"]
    /\ expired = [k \in Attempts |-> FALSE]
    /\ slept = [k \in Attempts |-> 0]
    /\ FmtIdle
    /\ ChunkIdle
    /\ TtsIdle
    /\ PdfIdle
    /\ PodIdle

\* One loop iteration up to thread.start(): num_attempts += 1, then
\* call_function_with_timeout makes its cells and starts the worker.
StartAttempt ==
    /\ pc = "loop"
    /\ loop_i < max_attempts
    /\ loop_i' = loop_i + 1
    /\ num_attempts' = NextNumAttempts(num_attempts)
    /\ calls' = calls + 1
    /\ result' = [result EXCEPT ![CellOf(calls + 1)] = None]
    /\ exception' = [exception EXCEPT ![CellOf(calls + 1)] = None]
    /\ thread' = [thread EXCEPT ![calls + 1] = "alive"]
    /\ timeout' = SEND_REQUEST_TIMEOUT
    /\ pc' = "join"
    /\ UNCHANGED <<max_attempts, returned, raised, outcome, expired, slept>>
    /\ UNCHANGED <<fmtVars, chunkVars, ttsVars, pdfVars, podVars>>

\* wrapper(): func returns, the value is stored, the thread ends.  A worker
\* runs on whether or not its invocation was abandoned.
WorkerReturns(k) ==
    /\ thread[k] = "alive"
    /\ result' = [result EXCEPT ![CellOf(k)] = ResultOf(k)]
    /\ thread' = [thread EXCEPT ![k] = "dead"]
    /\ UNCHANGED <<pc, max_attempts, loop_i, num_attempts, calls, exception,
                   returned, raised, timeout, outcome, expired, slept>>
    /\ UNCHANGED <<fmtVars, chunkVars, ttsVars, pdfVars, podVars>>

\* wrapper(): func raises, the exception is stored, the thread ends.
WorkerRaises(k, e) ==
    /\ thread[k] = "alive"
    /\ exception' = [exception EXCEPT ![CellOf(k)] = e]
    /\ thread' = [thread EXCEPT ![k] = "dead"]
    /\ UNCHANGED <<pc, max_attempts, loop_i, num_attempts, calls, result,
                   returned, raised, timeout, outcome, expired, slept>>
    /\ UNCHANGED <<fmtVars, chunkVars, ttsVars, pdfVars, podVars>>

\* thread.join(timeout) returns because the worker has ended
JoinReturns ==
    /\ pc = "join"
    /\ thread[calls] = "dead"
    /\ pc' = "joined"
    /\ UNCHANGED <<max_attempts, loop_i, num_attempts, calls, thread, result,
                   exception, returned, raised, timeout, outcome, expired, slept>>
    /\ UNCHANGED <<fmtVars, chunkVars, ttsVars, pdfVars, podVars>>

\* thread.join(timeout) returns because `timeout` seconds have passed
JoinTimesOut ==
    /\ pc = "join"
    /\ thread[calls] = "alive"
    /\ pc' = "joined"
    /\ expired' = [expired EXCEPT ![calls] = TRUE]
    /\ UNCHANGED <<max_attempts, loop_i, num_attempts, calls, thread, result,
                   exception, returned, raised, timeout, outcome, slept>>
    /\ UNCHANGED <<fmtVars, chunkVars, ttsVars, pdfVars, podVars>>

\* the except clause, entered with exception e
Handle(e) ==
    /\ outcome' = [outcome EXCEPT ![calls] = OutcomeOf(e)]
    /\ pc' = CASE ExceptionHandler(e, num_attempts, max_attempts) = "raise" -> "raised"
               [] ExceptionHandler(e, num_attempts, max_attempts) = "sleep" -> "sleep"
               [] OTHER -> "loop"
    /\ raised' = IF ExceptionHandler(e, num_attempts, max_attempts) = "raise"
                 THEN e ELSE raised
    /\ UNCHANGED <<max_attempts, loop_i, num_attempts, calls, thread, result,
                   exception, returned, timeout, expired, slept>>
    /\ UNCHANGED <<fmtVars, chunkVars, ttsVars, pdfVars, podVars>>

\* `if thread.is_alive(): raise FunctionCallTimeoutError()`
AttemptTimesOut ==
    /\ pc = "joined"
    /\ thread[calls] = "alive"
    /\ Handle(FunctionCallTimeoutError(calls))

\* `if exception[0]: raise exception[0]`
AttemptRaises ==
    /\ pc = "joined"
    /\ thread[calls] = "dead"
    /\ Truthy(exception[CellOf(calls)])
    /\ Handle(exception[CellOf(calls)])

\* `return result[0]`, then `break` and
\* `return result, num_attempts, time.time() - time_start`
\* (the duration is for observability and is not modelled)
AttemptSucceeds ==
    /\ pc = "joined"
    /\ thread[calls] = "dead"
    /\ ~Truthy(exception[CellOf(calls)])
    /\ outcome' = [outcome EXCEPT ![calls] = "ok"]
    /\ returned' = [result |-> result[CellOf(calls)], num_attempts |-> num_attempts]
    /\ pc' = "returned"
    /\ UNCHANGED <<max_attempts, loop_i, num_attempts, calls, thread, result,
                   exception, raised, timeout, expired, slept>>
    /\ UNCHANGED <<fmtVars, chunkVars, ttsVars, pdfVars, podVars>>

\* time.sleep(TIME_BETWEEN_RATE_LIMIT_RETRIES)
Cooldown ==
    /\ pc = "sleep"
    /\ slept' = [slept EXCEPT ![calls] = @ + TIME_BETWEEN_RATE_LIMIT_RETRIES]
    /\ pc' = "loop"
    /\ UNCHANGED <<max_attempts, loop_i, num_attempts, calls, thread, result,
                   exception, returned, raised, timeout, outcome, expired>>
    /\ UNCHANGED <<fmtVars, chunkVars, ttsVars, pdfVars, podVars>>

\* the steps of the calling thread
CallerStep ==
    \/ StartAttempt
    \/ JoinReturns
    \/ JoinTimesOut
    \/ AttemptTimesOut
    \/ AttemptRaises
    \/ AttemptSucceeds
    \/ Cooldown

\* the steps of the worker threads
WorkerStep ==
    \/ \E k \in Attempts : WorkerReturns(k)
    \/ \E k \in Attempts : \E e \in FuncExceptions(k) : WorkerRaises(k, e)

NextExec == CallerStep \/ WorkerStep

SpecExec == InitExec /\ [][NextExec]_vars

\* The calling thread is scheduled: join(timeout) and sleep() return.  Nothing
\* is assumed of the workers: func may never return.
SpecExecFair == SpecExec /\ WF_vars(CallerStep)

Spec == SpecExec

(***************************************************************************)
(* Properties of the executor.                                             *)
(***************************************************************************)
\* worker threads started so far
Started == Cardinality({k \in Attempts : thread[k] # "unstarted"})

Finished == pc \in {"returned", "raised"}

AllAttemptsTimedOut == \A k \in 1..calls : outcome[k] = "timeout"

C2_SuccessAfterFailures ==
    pc = "returned" =>
        LET n == returned.num_attempts IN
        /\ n >= 1
        /\ n <= max_attempts
        /\ n = Started
        /\ \A k \in 1..(n - 1) : outcome[k] \in {"timeout", "ratelimit", "error"}
        /\ outcome[n] = "ok"
        /\ returned.result = ResultOf(n)

C2_Witness ==
    /\ pc = "returned"
    /\ outcome[1] = "ratelimit"
    /\ outcome[2] = "ratelimit"
    /\ returned.num_attempts = 3
    /\ returned.result = ResultOf(3)
    /\ Started = 3

\* C3 (as the specification states it): an attempt that fails with an error that is neither a
\* timeout nor the rate-limit class ends the call: that error is propagated
\* and no further attempt is started.
C3_Original_NonRetryableErrorPropagates ==
    \A k \in 1..calls :
        outcome[k] = "error" =>
            /\ pc = "raised"
            /\ raised.by = k
            /\ Started = k

\* C3 (amended): an error of any class is propagated only by the final
\* attempt (attempt number max_attempts), and the error propagated is the one
\* that attempt raised; an earlier attempt that fails with an error that is
\* neither a timeout nor the rate-limit class is followed by the next attempt
\* at once, without cooldown.
C3_OnlyFinalAttemptPropagates ==
    /\ pc = "raised" =>
        /\ Started = max_attempts
        /\ num_attempts = max_attempts
        /\ raised.by = max_attempts
        /\ OutcomeOf(raised) = outcome[max_attempts]
        /\ raised.cls # "FunctionCallTimeoutError" =>
              raised = exception[CellOf(max_attempts)]
    /\ \A k \in 1..calls :
        (outcome[k] = "error" /\ k < max_attempts) =>
            /\ slept[k] = 0
            /\ k = calls => pc = "loop"

C3_Witness ==
    /\ pc = "raised"
    /\ outcome[1] = "error"
    /\ outcome[2] = "error"
    /\ Started = 3
    /\ raised = OtherException(3)

\* the attempt after attempt k has started, or the call has ended
Settled(k) == k < calls \/ Finished

\* C4: the cooldown of 61 s is waited after attempt k exactly when attempt k
\* failed with the rate-limit class and was not the final attempt: none after
\* a timeout or another error, none after the final attempt's failure, none
\* after a success.
C4_CooldownOnlyAfterRateLimit ==
    /\ \A k \in 1..calls :
        /\ slept[k] \in {0, TIME_BETWEEN_RATE_LIMIT_RETRIES}
        /\ Settled(k) =>
              (slept[k] = TIME_BETWEEN_RATE_LIMIT_RETRIES
                  <=> (outcome[k] = "ratelimit" /\ k < max_attempts))
        /\ slept[k] = TIME_BETWEEN_RATE_LIMIT_RETRIES =>
              (outcome[k] = "ratelimit" /\ k < max_attempts)
    /\ pc = "sleep" => (outcome[calls] = "ratelimit" /\ calls < max_attempts)

C4_Witness ==
    /\ calls = 3
    /\ outcome[1] = "timeout"
    /\ slept[1] = 0
    /\ outcome[2] = "ratelimit"
    /\ slept[2] = TIME_BETWEEN_RATE_LIMIT_RETRIES
    /\ pc = "raised"
    /\ outcome[3] = "ratelimit"
    /\ slept[3] = 0

\* what attempt_function_call hands to its caller never comes from the worker
\* of another invocation than the one that ended the call, and the cells the
\* current invocation reads hold only what its own worker wrote
NoAbandonedResultObserved ==
    /\ pc = "returned" =>
        /\ returned.result = ResultOf(returned.num_attempts)
        /\ outcome[returned.num_attempts] = "ok"
        /\ returned.num_attempts = calls
    /\ pc = "raised" => raised.by = calls
    /\ calls >= 1 =>
        /\ result[CellOf(calls)].by \in {0, calls}
        /\ exception[CellOf(calls)].by \in {0, calls}
    /\ \A k \in 1..calls :
        outcome[k] = "timeout" =>
            /\ ~(pc = "returned" /\ returned.result.by = k)
            /\ ~(pc = "raised" /\ raised.by = k /\ raised.cls # "FunctionCallTimeoutError")

\* C5 (as the specification states it): a worker still running when the deadline of its join
\* elapses makes the attempt raise the timeout condition, and no result of an
\* abandoned worker is returned or seen by a later attempt.
C5_Original_DeadlineElapsedMeansTimeout ==
    /\ \A k \in 1..calls :
        (expired[k] /\ outcome[k] # "none") => outcome[k] = "timeout"
    /\ NoAbandonedResultObserved

\* C5 (amended): an attempt raises the timeout condition exactly when its
\* worker is still running at the is_alive() check that follows the join (a
\* worker that ends between the deadline and that check counts as completed);
\* what an abandoned worker produces later is never returned and never seen
\* by a later attempt, and the value returned is the one written by the
\* worker of the attempt reported as successful.
C5_AbandonedWorkerNeverObserved ==
    /\ \A k \in 1..calls :
        /\ outcome[k] = "timeout" => expired[k]
        /\ outcome[k] \in {"ok", "ratelimit", "error"} => thread[k] = "dead"
    /\ NoAbandonedResultObserved

C5_Witness ==
    /\ pc = "returned"
    /\ calls = 2
    /\ outcome[1] = "timeout"
    /\ thread[1] = "dead"
    /\ result[CellOf(1)] = ResultOf(1)
    /\ returned.result = ResultOf(2)

\* the workers that are executing func
Executing == {k \in Attempts : thread[k] = "alive"}

\* C28 (as the specification states it): within one attempt_function_call
\* at most one invocation of func is executing at any time, also after an
\* attempt that ended by timeout.
C28_Original_OneInvocationAtATime == Cardinality(Executing) <= 1

(***************************************************************************)
(* Strings are sequences of one-character strings.                         *)
(***************************************************************************)
\* the concatenation of a sequence of sequences (str.join with "", and
\* np.concatenate)
RECURSIVE Concat(_)
Concat(ss) == IF ss = <<>> THEN <<>> ELSE Head(ss) \o Concat(Tail(ss))

\* n copies of the character c
Repeat(c, n) == [i \in 1..n |-> c]

\* s[-n:]
LastChars(s, n) == IF Len(s) <= n THEN s ELSE SubSeq(s, Len(s) - n + 1, Len(s))

(***************************************************************************)
(* The reformatting loop: format_text_for_tts, src/inference.py            *)
(***************************************************************************)
\* pages of the document are at most MaxPages
MaxPages == 2

\* the length of the long page response: with the space before it the
\* narration of one page is longer than the previous fragment may be
LongResponseLen == 100

\* formatted_document_text[-100:]
PREVIOUS_FRAGMENT_CHARS == 100

\* cleaned page texts the loop is given (a page may be empty)
PageTexts == { <<>>, <<"p">>, <<"q", " ", "r">> }

\* texts the remote model answers with
ResponseTexts == { <<>>, <<"A", ".">>, Repeat("z", LongResponseLen) }

\* chat_completion.choices[0].message.content as json.loads and
\* FormattedPageText(**...) see it: a JSON object with or without the field
\* "text" (and possibly other fields), JSON that is no object, text that is
\* no JSON, or None
ResponseMessages ==
    { [shape |-> "object", has_text |-> TRUE, extra |-> x, text |-> t] :
          x \in BOOLEAN, t \in ResponseTexts }
    \cup { [shape |-> "object", has_text |-> FALSE, extra |-> TRUE, text |-> <<>>],
           [shape |-> "array", has_text |-> FALSE, extra |-> FALSE, text |-> <<>>],
           [shape |-> "not_json", has_text |-> FALSE, extra |-> FALSE, text |-> <<>>],
           [shape |-> "none", has_text |-> FALSE, extra |-> FALSE, text |-> <<>>] }

\* the classes of the exceptions the client raises, which send_request wraps
\* into OpenAIAPICallError(openai_error=e.__class__.__name__)
ClientErrors == {"RateLimitError", "APITimeoutError", "BadRequestError"}

MutantParseLenient(msg) ==
    [ok |-> TRUE, text |-> msg.text]

\* FormattedPageText(**json.loads(response_msg)): json.loads raises on None
\* and on text that is no JSON, ** raises on what is no mapping, the model
\* raises when the field text is missing; other fields are ignored
ParseFormattedPageText(msg) ==
    IF msg.shape = "object" /\ msg.has_text
    THEN [ok |-> TRUE, text |-> msg.text]
    ELSE [ok |-> FALSE, text |-> <<>>]

MutantWholeNarrationAsFragment(doc) ==
    IF doc # <<>> THEN <<".", ".", ".", " ">> \o doc ELSE <<>>

\* f"... {formatted_document_text[-100:]}" if formatted_document_text else ""
PreviousFragment(doc) ==
    IF doc # <<>>
    THEN <<".", ".", ".", " ">> \o LastChars(doc, PREVIOUS_FRAGMENT_CHARS)
    ELSE <<>>

\* text_chunks[page_id + 1] if page_id + 1 < len(text_chunks) else ""
\* (page_id counts from 0, sequences from 1)
NextPreview(chunks, id) ==
    IF id + 1 < Len(chunks) THEN chunks[id + 2] ELSE <<>>

MutantAppendWithoutSpace(doc, text) == doc \o text

\* formatted_document_text += f" {formatted_page_text.text}"
AppendPage(doc, text) == doc \o <<" ">> \o text

InitFmt ==
    /\ fpc = "loop"
    /\ text_chunks \in UNION { [1..n -> PageTexts] : n \in 0..MaxPages }
    /\ page_id = 0
    /\ formatted_document_text = <<>>
    /\ fmt_returned = [set |-> FALSE, text |-> <<>>]
    /\ fmt_raised = "None"
    /\ requests = <<>>
    /\ received = <<>>
    /\ ExecIdle
    /\ ChunkIdle
    /\ TtsIdle
    /\ PdfIdle
    /\ PodIdle

\* One loop iteration up to the call: the three fields are built and
\* openai_api_controller.send_request is called with them
SendRequest ==
    /\ fpc = "loop"
    /\ page_id < Len(text_chunks)
    /\ requests' = Append(requests,
          [page_id |-> page_id,
           previous_fragment |-> PreviousFragment(formatted_document_text),
           current_page |-> text_chunks[page_id + 1],
           next_preview |-> NextPreview(text_chunks, page_id),
           narration |-> formatted_document_text])
    /\ fpc' = "await"
    /\ UNCHANGED <<text_chunks, page_id, formatted_document_text, fmt_returned,
                   fmt_raised, received>>
    /\ UNCHANGED <<execVars, chunkVars, ttsVars, pdfVars, podVars>>

\* send_request returns a completion; its content is validated and, when it
\* parses, appended to the narration; when not, the function raises
ReceiveResponse(msg) ==
    /\ fpc = "await"
    /\ received' = Append(received, msg)
    /\ IF ParseFormattedPageText(msg).ok
       THEN /\ formatted_document_text' =
                  AppendPage(formatted_document_text, ParseFormattedPageText(msg).text)
            /\ page_id' = page_id + 1
            /\ fpc' = "loop"
            /\ fmt_raised' = fmt_raised
       ELSE /\ fmt_raised' = "OpenAIInvalidResponseFormatError"
            /\ fpc' = "raised"
            /\ UNCHANGED <<formatted_document_text, page_id>>
    /\ UNCHANGED <<text_chunks, fmt_returned, requests>>
    /\ UNCHANGED <<execVars, chunkVars, ttsVars, pdfVars, podVars>>

\* send_request raises OpenAIAPICallError: nothing in format_text_for_tts
\* catches it, nor calls send_request again
RequestFails(err) ==
    /\ fpc = "await"
    /\ fmt_raised' = err
    /\ fpc' = "raised"
    /\ UNCHANGED <<text_chunks, page_id, formatted_document_text, fmt_returned,
                   requests, received>>
    /\ UNCHANGED <<execVars, chunkVars, ttsVars, pdfVars, podVars>>

\* the loop is over: return formatted_document_text
ReturnNarration ==
    /\ fpc = "loop"
    /\ page_id = Len(text_chunks)
    /\ fmt_returned' = [set |-> TRUE, text |-> formatted_document_text]
    /\ fpc' = "done"
    /\ UNCHANGED <<text_chunks, page_id, formatted_document_text, fmt_raised,
                   requests, received>>
    /\ UNCHANGED <<execVars, chunkVars, ttsVars, pdfVars, podVars>>

NextFmt ==
    \/ SendRequest
    \/ \E msg \in ResponseMessages : ReceiveResponse(msg)
    \/ \E err \in ClientErrors : RequestFails(err)
    \/ ReturnNarration

SpecFmt == InitFmt /\ [][NextFmt]_vars

(***************************************************************************)
(* Properties of the reformatting loop.                                    *)
(***************************************************************************)
\* the narration the responses rs give: one space and the text, for each
RECURSIVE NarrationOf(_)
NarrationOf(rs) ==
    IF rs = <<>> THEN <<>>
    ELSE NarrationOf(SubSeq(rs, 1, Len(rs) - 1)) \o <<" ">> \o rs[Len(rs)].text

\* send_request calls issued for page p
RequestsFor(p) == Cardinality({j \in 1..Len(requests) : requests[j].page_id = p})

\* C6: one remote call per page, in increasing page order, the call for page
\* i issued with the narration that holds the responses of pages 0..i-1; on
\* success the narration returned is, in page order, one space followed by
\* each page's returned text.
C6_OneCallPerPageInOrder ==
    /\ Len(requests) <= Len(text_chunks)
    /\ \A j \in 1..Len(requests) :
        /\ requests[j].page_id = j - 1
        /\ requests[j].current_page = text_chunks[j]
        /\ Len(received) >= j - 1
        /\ requests[j].narration = NarrationOf(SubSeq(received, 1, j - 1))
    /\ fpc = "done" =>
        /\ fmt_returned.set
        /\ Len(received) = Len(text_chunks)
        /\ \A p \in 0..(Len(text_chunks) - 1) : RequestsFor(p) = 1
        /\ fmt_returned.text = NarrationOf(received)

C6_Witness ==
    /\ fpc = "done"
    /\ Len(text_chunks) = 2
    /\ received[1].text = <<"A", ".">>
    /\ received[2].text = <<"A", ".">>
    /\ fmt_returned.text = <<" ", "A", ".", " ", "A", ".">>

\* a response the single-field schema does not parse
Unparsable(msg) == ~(msg.shape = "object" /\ msg.has_text)

\* C7: a response that does not parse into the schema makes
\* format_text_for_tts raise OpenAIInvalidResponseFormatError at once: the
\* page is not requested again, no later page is requested, and nothing is
\* returned.
C7_UnparsableResponseIsFatal ==
    \A j \in 1..Len(received) :
        Unparsable(received[j]) =>
            /\ fpc = "raised"
            /\ fmt_raised = "OpenAIInvalidResponseFormatError"
            /\ j = Len(received)
            /\ Len(requests) = j
            /\ RequestsFor(j - 1) = 1
            /\ ~fmt_returned.set

C7_Witness ==
    /\ fpc = "raised"
    /\ Len(text_chunks) = 2
    /\ Len(received) = 2
    /\ ~Unparsable(received[1])
    /\ received[2].shape = "not_json"
    /\ formatted_document_text = <<" ", "A", ".">>
    /\ ~fmt_returned.set

\* the last n characters of s, or s when it has fewer
Ending(s, n) == [i \in 1..(IF Len(s) < n THEN Len(s) ELSE n) |->
                    s[i + (IF Len(s) < n THEN 0 ELSE Len(s) - n)]]

\* C23: in the request for page i the previous fragment is empty when i is
\* the first page, and otherwise "... " followed by the last 100
\* characters, or by all of them when there are fewer, of the narration
\* made of the responses of pages 0..i-1; the current page is the text of
\* page i; the next preview is the text of page i+1, or empty when page i
\* is the last
C23_RequestFields ==
    \A j \in 1..Len(requests) :
        LET i == requests[j].page_id
            before == NarrationOf(SubSeq(received, 1, i))
        IN  /\ i = 0 => requests[j].previous_fragment = <<>>
            /\ i > 0 => requests[j].previous_fragment
                            = <<".", ".", ".", " ">> \o Ending(before, 100)
            /\ requests[j].current_page = text_chunks[i + 1]
            /\ requests[j].next_preview =
                  (IF i = Len(text_chunks) - 1 THEN <<>> ELSE text_chunks[i + 2])

\* two pages, the response of the first longer than 100 characters with
\* its space: the request of the second page carries its last 100
\* characters and no preview, the request of the first carried no fragment
\* and the second page as preview
C23_Witness ==
    /\ Len(requests) = 2
    /\ text_chunks = << <<"p">>, <<"q", " ", "r">> >>
    /\ Len(formatted_document_text) = 101
    /\ requests[1].previous_fragment = <<>>
    /\ requests[1].next_preview = <<"q", " ", "r">>
    /\ requests[2].previous_fragment = <<".", ".", ".", " ">> \o Repeat("z", 100)
    /\ requests[2].current_page = <<"q", " ", "r">>
    /\ requests[2].next_preview = <<>>

\* C8 (as the specification states it): when the run is aborted by a timeout or a rate-limit
\* response of the remote call for a page, that call was attempted
\* MAX_INFERENCE_RETRIES times.
C8_Original_TransientErrorsRetried ==
    (fpc = "raised" /\ fmt_raised \in {"RateLimitError", "APITimeoutError"}) =>
        RequestsFor(page_id) = MAX_INFERENCE_RETRIES

(***************************************************************************)
(* Python string operations used by the audio pipeline.                    *)
(***************************************************************************)
\* str.isspace of one character
IsSpace(c) == c \in {" ", "\n", "\t"}

RECURSIVE LStrip(_)
LStrip(s) == IF s # <<>> /\ IsSpace(Head(s)) THEN LStrip(Tail(s)) ELSE s

\* str.rstrip()
RECURSIVE RStrip(_)
RStrip(s) ==
    IF s # <<>> /\ IsSpace(s[Len(s)]) THEN RStrip(SubSeq(s, 1, Len(s) - 1)) ELSE s

\* str.strip()
Strip(s) == LStrip(RStrip(s))

\* str.startswith
StartsWith(s, prefix) ==
    Len(s) >= Len(prefix) /\ SubSeq(s, 1, Len(prefix)) = prefix

\* str.split(sep): the pieces between the occurrences of sep, found from the
\* left and not overlapping; cur is the piece being read
RECURSIVE SplitFrom(_, _, _)
SplitFrom(s, sep, cur) ==
    IF s = <<>> THEN <<cur>>
    ELSE IF StartsWith(s, sep)
         THEN <<cur>> \o SplitFrom(SubSeq(s, Len(sep) + 1, Len(s)), sep, <<>>)
         ELSE SplitFrom(Tail(s), sep, Append(cur, Head(s)))

StrSplit(s, sep) == SplitFrom(s, sep, <<>>)

\* str.split(): the maximal runs of characters that are no whitespace
RECURSIVE WordsFrom(_, _)
WordsFrom(s, cur) ==
    IF s = <<>> THEN (IF cur = <<>> THEN <<>> ELSE <<cur>>)
    ELSE IF IsSpace(Head(s))
         THEN (IF cur = <<>> THEN <<>> ELSE <<cur>>) \o WordsFrom(Tail(s), <<>>)
         ELSE WordsFrom(Tail(s), Append(cur, Head(s)))

Words(s) == WordsFrom(s, <<>>)

\* lambda x: x != ""
NonEmpty(x) == x # <<>>

\* filter(lambda x: x != "", map(str.strip, pieces))
StrippedNonEmpty(pieces) ==
    SelectSeq([i \in 1..Len(pieces) |-> Strip(pieces[i])], NonEmpty)

(***************************************************************************)
(* TTSModelClient._chunk_text, src/tts/controller.py                       *)
(***************************************************************************)
\* the texts given to _chunk_text have at most MaxTextLen characters
MaxTextLen == 7

\* max_words ranges over 1..MaxWordsArg
MaxWordsArg == 2

\* the default of the parameter max_words
DEFAULT_MAX_WORDS == 50

ChunkAlphabet == {"a", "b", ".", " "}

\* the sentences of text.split(". "), stripped, the empty ones dropped
SentencesOf(text) == StrippedNonEmpty(StrSplit(text, <<".", " ">>))

MutantCloseOnSentenceAlone(chunk, sentence, max) ==
    chunk # <<>> /\ Len(Words(sentence)) > max

\* current_chunk != "" and
\* len(current_chunk_words) + len(sentence_words) > max_words
ShouldCloseChunk(chunk, sentence, max) ==
    chunk # <<>> /\ Len(Words(chunk)) + Len(Words(sentence)) > max

\* sentence + (". " if sentence[-1] != "." else "")
SentenceToAppend(sentence) ==
    sentence \o (IF sentence[Len(sentence)] # "." THEN <<".", " ">> ELSE <<>>)

MutantLoopBodyDropsOnClose(st, sentence, max) ==
    IF ShouldCloseChunk(st.cur, sentence, max)
    THEN [cur |-> <<>>, out |-> Append(st.out, RStrip(st.cur))]
    ELSE [cur |-> st.cur \o SentenceToAppend(sentence), out |-> st.out]

\* the body of the for loop on [cur |-> current_chunk, out |->
\* small_chunks_for_tts]
ChunkLoopBody(st, sentence, max) ==
    IF ShouldCloseChunk(st.cur, sentence, max)
    THEN [cur |-> SentenceToAppend(sentence), out |-> Append(st.out, RStrip(st.cur))]
    ELSE [cur |-> st.cur \o SentenceToAppend(sentence), out |-> st.out]

RECURSIVE ChunkLoop(_, _, _)
ChunkLoop(st, ss, max) ==
    IF ss = <<>> THEN st ELSE ChunkLoop(ChunkLoopBody(st, Head(ss), max), Tail(ss), max)

\* _chunk_text(text, max_words) as a whole
ChunkText(text, max) ==
    LET st == ChunkLoop([cur |-> <<>>, out |-> <<>>], SentencesOf(text), max)
    IN  IF st.cur # <<>> THEN Append(st.out, RStrip(st.cur)) ELSE st.out

InitChunk ==
    /\ cpc = "loop"
    /\ chunk_text \in UNION { [1..n -> ChunkAlphabet] : n \in 0..MaxTextLen }
    /\ max_words \in 1..MaxWordsArg
    /\ sentences = SentencesOf(chunk_text)
    /\ current_chunk = <<>>
    /\ small_chunks_for_tts = <<>>
    /\ chunks_returned = <<>>
    /\ packed = <<>>
    /\ packing = <<>>
    /\ ExecIdle
    /\ FmtIdle
    /\ TtsIdle
    /\ PdfIdle
    /\ PodIdle

\* one iteration of the for loop
ChunkSentence ==
    /\ cpc = "loop"
    /\ sentences # <<>>
    /\ LET st == ChunkLoopBody([cur |-> current_chunk, out |-> small_chunks_for_tts],
                               Head(sentences), max_words)
       IN  /\ current_chunk' = st.cur
           /\ small_chunks_for_tts' = st.out
           /\ IF Len(st.out) > Len(small_chunks_for_tts)
              THEN /\ packed' = Append(packed, packing)
                   /\ packing' = <<Head(sentences)>>
              ELSE /\ packed' = packed
                   /\ packing' = Append(packing, Head(sentences))
    /\ sentences' = Tail(sentences)
    /\ UNCHANGED <<cpc, chunk_text, max_words, chunks_returned>>
    /\ UNCHANGED <<execVars, fmtVars, ttsVars, pdfVars, podVars>>

\* after the loop: `if current_chunk:` the last chunk is added; return
ChunkReturn ==
    /\ cpc = "loop"
    /\ sentences = <<>>
    /\ IF current_chunk # <<>>
       THEN /\ small_chunks_for_tts' = Append(small_chunks_for_tts, RStrip(current_chunk))
            /\ packed' = Append(packed, packing)
       ELSE UNCHANGED <<small_chunks_for_tts, packed>>
    /\ chunks_returned' = small_chunks_for_tts'
    /\ cpc' = "done"
    /\ UNCHANGED <<chunk_text, max_words, sentences, current_chunk, packing>>
    /\ UNCHANGED <<execVars, fmtVars, ttsVars, pdfVars, podVars>>

NextChunk == ChunkSentence \/ ChunkReturn

SpecChunk == InitChunk /\ [][NextChunk]_vars

ChunkOf(ss) == RStrip(Concat([i \in 1..Len(ss) |-> SentenceToAppend(ss[i])]))

\* s occurs in t as a whole
IsSubstring(s, t) ==
    \E i \in 1..(Len(t) - Len(s) + 1) : SubSeq(t, i, i + Len(s) - 1) = s

\* n words "a" with one space between them
WordsText(n) == [i \in 1..(2 * n - 1) |-> IF i % 2 = 1 THEN "a" ELSE " "]

RECURSIVE WithoutEndPeriods(_)
WithoutEndPeriods(word) ==
    IF word # <<>> /\ word[Len(word)] = "."
    THEN WithoutEndPeriods(SubSeq(word, 1, Len(word) - 1)) ELSE word

\* the words of s, each without the periods at its end, those that are
\* nothing but periods left out
PlainWords(s) ==
    SelectSeq([i \in 1..Len(Words(s)) |-> WithoutEndPeriods(Words(s)[i])], NonEmpty)

\* C26 (as the specification states it): the chunks returned, read in
\* order, have the words of the text, in order, apart from the periods at
\* the end of a word: no two words are merged, none is dropped or repeated.
C26_Original_WordsPreserved ==
    cpc = "done" =>
        Concat([j \in 1..Len(chunks_returned) |-> PlainWords(chunks_returned[j])])
            = PlainWords(chunk_text)

(***************************************************************************)
(* convert_text_to_speech, src/inference.py, and                           *)
(* TTSModelClient.text_to_speech, src/tts/controller.py                    *)
(*                                                                         *)
(* A waveform is a sequence of blocks: n zero samples, or the n samples    *)
(* the synthesis pipeline gives for a text.  np.concatenate is the         *)
(* concatenation of the blocks.                                            *)
(***************************************************************************)
\* the narration is written from at most MaxFragments pieces
MaxFragments == 5

SILENCE_KEYWORD == <<"[", "S", "I", "L", "E", "N", "C", "E", "]">>

\* the pieces a narration is written from
Fragments == { SILENCE_KEYWORD, <<" ">>, <<"A", ".">>, <<"B", ".">> }

\* the pause slider goes from 0 to 1 s in steps of 0.1 s (app.py); these are
\* the values tried, in tenths of a second
PauseTenths == {0, 3, 5}

\* np.zeros(n)
Zeros(n) == IF n = 0 THEN <<>> ELSE <<[kind |-> "zeros", text |-> <<>>, n |-> n]>>

\* int(SAMPLE_RATE * duration_of_pauses)
SilenceSamples(tenths) == (SAMPLE_RATE * tenths) \div 10

\* self.pipeline(text=chunk, ...): the audio of one chunk; its length is the
\* synthesis model's business, any positive number that depends on the text
\* would do
Pipeline(chunk) == <<[kind |-> "speech", text |-> chunk, n |-> 2000 * Len(chunk)]>>

\* text_to_speech(text): the audio of the chunks of text, in chunk order
TextToSpeech(text) ==
    LET chunks == ChunkText(text, DEFAULT_MAX_WORDS)
    IN  Concat([i \in 1..Len(chunks) |-> Pipeline(chunks[i])])

\* the number of samples of a waveform
RECURSIVE Samples(_)
Samples(wave) == IF wave = <<>> THEN 0 ELSE Head(wave).n + Samples(Tail(wave))

MutantSilenceBeforeEverySegment(id) == id >= 0

\* `if text_chunk_id > 0:`
SilenceBefore(id) == id > 0

MutantKeepEmptySpans(text) ==
    LET pieces == StrSplit(text, SILENCE_KEYWORD)
    IN  [i \in 1..Len(pieces) |-> Strip(pieces[i])]

\* filter(lambda x: x != "", map(str.strip, text.split(SILENCE_KEYWORD)))
SplitByPauses(text) == StrippedNonEmpty(StrSplit(text, SILENCE_KEYWORD))

InitTts ==
    /\ tpc = "loop"
    /\ fragments \in UNION { [1..n -> Fragments] : n \in 0..MaxFragments }
    /\ narration = Concat(fragments)
    /\ duration_tenths \in PauseTenths
    /\ text_split_by_pauses = SplitByPauses(narration)
    /\ text_chunk_id = 0
    /\ audio_chunks = <<>>
    /\ audio = <<>>
    /\ synth_calls = <<>>
    /\ ExecIdle
    /\ FmtIdle
    /\ ChunkIdle
    /\ PdfIdle
    /\ PodIdle

\* one iteration of the for loop: the segment is synthesized, silence is put
\* before it when it is not the first, and the result is appended
SynthesizeSegment ==
    /\ tpc = "loop"
    /\ text_split_by_pauses # <<>>
    /\ synth_calls' = Append(synth_calls, Head(text_split_by_pauses))
    /\ audio_chunks' = Append(audio_chunks,
          IF SilenceBefore(text_chunk_id)
          THEN Zeros(SilenceSamples(duration_tenths))
                   \o TextToSpeech(Head(text_split_by_pauses))
          ELSE TextToSpeech(Head(text_split_by_pauses)))
    /\ text_chunk_id' = text_chunk_id + 1
    /\ text_split_by_pauses' = Tail(text_split_by_pauses)
    /\ UNCHANGED <<tpc, narration, fragments, duration_tenths, audio>>
    /\ UNCHANGED <<execVars, fmtVars, chunkVars, pdfVars, podVars>>

\* audio = np.concatenate(audio_chunks); return audio
ReturnAudio ==
    /\ tpc = "loop"
    /\ text_split_by_pauses = <<>>
    /\ audio_chunks # <<>>
    /\ audio' = Concat(audio_chunks)
    /\ tpc' = "done"
    /\ UNCHANGED <<narration, fragments, duration_tenths, text_split_by_pauses,
                   text_chunk_id, audio_chunks, synth_calls>>
    /\ UNCHANGED <<execVars, fmtVars, chunkVars, pdfVars, podVars>>

\* np.concatenate of an empty list raises ValueError: a narration without any
\* segment
NoAudioRaises ==
    /\ tpc = "loop"
    /\ text_split_by_pauses = <<>>
    /\ audio_chunks = <<>>
    /\ tpc' = "raised"
    /\ UNCHANGED <<narration, fragments, duration_tenths, text_split_by_pauses,
                   text_chunk_id, audio_chunks, audio, synth_calls>>
    /\ UNCHANGED <<execVars, fmtVars, chunkVars, pdfVars, podVars>>

NextTts == SynthesizeSegment \/ ReturnAudio \/ NoAudioRaises

SpecTts == InitTts /\ [][NextTts]_vars

(***************************************************************************)
(* Properties of the audio assembly.                                       *)
(***************************************************************************)
\* The pause segments of a narration, read off the pieces it was written
\* from: the text between two marker pieces, trimmed, the empty ones dropped.
RECURSIVE SpansOf(_, _)
SpansOf(fs, cur) ==
    IF fs = <<>> THEN <<cur>>
    ELSE IF Head(fs) = SILENCE_KEYWORD
         THEN <<cur>> \o SpansOf(Tail(fs), <<>>)
         ELSE SpansOf(Tail(fs), cur \o Head(fs))

PauseSegments == StrippedNonEmpty(SpansOf(fragments, <<>>))

\* audio(s_1), then for each later segment the silence and audio(s_i)
RECURSIVE Assembled(_, _)
Assembled(segs, silence) ==
    IF segs = <<>> THEN <<>>
    ELSE IF Len(segs) = 1 THEN TextToSpeech(segs[1])
    ELSE Assembled(SubSeq(segs, 1, Len(segs) - 1), silence)
             \o Zeros(silence) \o TextToSpeech(segs[Len(segs)])

RECURSIVE SpeechSamples(_)
SpeechSamples(segs) ==
    IF segs = <<>> THEN 0
    ELSE Samples(TextToSpeech(Head(segs))) + SpeechSamples(Tail(segs))

\* C9: with n >= 1 pause segments the waveform returned is audio(s_1), then
\* for each later segment int(SAMPLE_RATE * pause) zero samples and
\* audio(s_i), in segment order; its length is the sum of the segments'
\* audio plus n-1 silences; it neither starts nor ends with silence.
C9_AudioAssembly ==
    tpc = "done" =>
        LET n == Len(PauseSegments)
            silence == SilenceSamples(duration_tenths)
        IN  /\ n >= 1
            /\ synth_calls = PauseSegments
            /\ audio = Assembled(PauseSegments, silence)
            /\ Samples(audio) = SpeechSamples(PauseSegments) + (n - 1) * silence
            /\ audio[1].kind = "speech"
            /\ audio[Len(audio)].kind = "speech"
            /\ Cardinality({i \in 1..Len(audio) : audio[i].kind = "zeros"})
                  = IF silence = 0 THEN 0 ELSE n - 1

C9_Witness ==
    /\ tpc = "done"
    /\ fragments = << <<"A", ".">>, <<" ">>, SILENCE_KEYWORD, <<" ">>, <<"B", ".">> >>
    /\ duration_tenths = 5
    /\ Samples(audio) = Samples(TextToSpeech(<<"A", ".">>)) + 12000
                            + Samples(TextToSpeech(<<"B", ".">>))
    /\ audio[2] = [kind |-> "zeros", text |-> <<>>, n |-> 12000]

\* the pause marker is written in text at position p
MarkerAt(text, p) ==
    /\ p + Len(SILENCE_KEYWORD) - 1 <= Len(text)
    /\ SubSeq(text, p, p + Len(SILENCE_KEYWORD) - 1) = SILENCE_KEYWORD

\* the stretches of text from position start on that lie between two
\* consecutive markers, or between a marker and the start or the end
RECURSIVE SpansBetweenMarkers(_, _)
SpansBetweenMarkers(text, start) ==
    LET at == {p \in start..Len(text) : MarkerAt(text, p)}
    IN  IF at = {} THEN <<SubSeq(text, start, Len(text))>>
        ELSE LET p == CHOOSE q \in at : \A r \in at : q <= r
             IN  <<SubSeq(text, start, p - 1)>>
                     \o SpansBetweenMarkers(text, p + Len(SILENCE_KEYWORD))

\* s is a prefix of t
IsPrefix(s, t) == Len(s) <= Len(t) /\ SubSeq(t, 1, Len(s)) = s

\* C12: the texts handed to the synthesis client are, in the order of the
\* narration, the stretches between consecutive pause markers (or the start
\* or the end), trimmed, the empty ones left out: none is empty, none has
\* whitespace at either end, none holds the marker, and neither does any
\* chunk the client cuts them into.
C12_SynthesizedSpans ==
    LET spans == SpansBetweenMarkers(narration, 1)
        trimmed == [i \in 1..Len(spans) |-> Strip(spans[i])]
        kept == SelectSeq(trimmed, NonEmpty)
    IN  /\ IsPrefix(synth_calls, kept)
        /\ tpc \in {"done", "raised"} => synth_calls = kept
        /\ Len(synth_calls) = text_chunk_id
        /\ \A i \in 1..Len(synth_calls) :
            /\ synth_calls[i] # <<>>
            /\ Strip(synth_calls[i]) = synth_calls[i]
            /\ ~ \E p \in 1..Len(synth_calls[i]) : MarkerAt(synth_calls[i], p)
            /\ LET chunks == ChunkText(synth_calls[i], DEFAULT_MAX_WORDS)
               IN  \A c \in 1..Len(chunks) :
                       ~ \E p \in 1..Len(chunks[c]) : MarkerAt(chunks[c], p)

\* markers at the start, doubled and at the end: three empty stretches left
\* out, two texts synthesized in order
C12_Witness ==
    /\ tpc = "done"
    /\ fragments = <<SILENCE_KEYWORD, <<"B", ".">>, SILENCE_KEYWORD,
                     SILENCE_KEYWORD, <<"A", ".">> >>
    /\ Len(SpansBetweenMarkers(narration, 1)) = 4
    /\ synth_calls = << <<"B", ".">>, <<"A", ".">> >>

(***************************************************************************)
(* detect_header_footer and _find_common_elements,                         *)
(* src/pdf_reader/helpers.py                                               *)
(*                                                                         *)
(* A page is the sequence of the lines of its text, a line a sequence of   *)
(* characters.                                                             *)
(***************************************************************************)
\* the documents tried have at most MaxDocPages pages
MaxDocPages == 3

\* `if page_count < 3`
MIN_PAGES_FOR_DETECTION == 3

\* threshold: float = 0.6, in tenths
THRESHOLD_TENTHS == 6

\* max_selected_lines: int = 5
DEFAULT_MAX_SELECTED_LINES == 5

\* a character that is in [\x00-\x1f\x7f-\x9f] and is no whitespace
CTRL == "<SOH>"

Digits == {"0", "1", "2", "3", "4", "5", "6", "7", "8", "9"}

\* the pages the documents are made of: a header "H" and a numbered footer
\* "P<n>", body lines "x", a blank line, a header with a trailing blank, a
\* line of one control character
SamplePages ==
    { << <<"H">>, <<"x">>, <<"P", "1">> >>,
      << <<"H">>, <<" ">>, <<"P", "2">> >>,
      << <<"P", "3">> >>,
      << <<"x">>, <<"H">>, <<"x">> >>,
      << >>,
      << <<"H", " ">>, <<CTRL>>, <<"x">> >> }

\* the values of max_selected_lines tried: with these the windows of first
\* and last lines are shorter than, as long as, and longer than the pages
Windows == {1, 2}

IsNotDigit(c) == c \notin Digits

\* re.sub(r"\d+", "", line)
StripDigits(line) == SelectSeq(line, IsNotDigit)

IsNotControl(c) == c \notin {CTRL, "\t", "\n"}

\* _replace_escape_characters(line): the control characters are taken out
ReplaceEscapeCharacters(line) == SelectSeq(line, IsNotControl)

\* line.strip() != ""
NotBlank(line) == Strip(line) # <<>>

\* _replace_escape_characters(line).strip() != ""
NotBlankWithoutEscapes(line) == Strip(ReplaceEscapeCharacters(line)) # <<>>

\* nonblank_lines of a page
NonblankLines(page) == SelectSeq(SelectSeq(page, NotBlank), NotBlankWithoutEscapes)

\* lines[:k]
FirstLines(lines, k) == SubSeq(lines, 1, IF k < Len(lines) THEN k ELSE Len(lines))

\* lines[-k:], k >= 1
LastLines(lines, k) ==
    SubSeq(lines, IF Len(lines) - k + 1 > 1 THEN Len(lines) - k + 1 ELSE 1, Len(lines))

\* Counter(xs)[x]
CountOf(x, xs) == Cardinality({i \in 1..Len(xs) : xs[i] = x})

MutantTooFewPagesBelowTwo(page_count) == page_count < 2

\* `if page_count < 3: return []`
TooFewPages(page_count) == page_count < MIN_PAGES_FOR_DETECTION

\* count > page_count * threshold
IsCommon(count, page_count) == 10 * count > page_count * THRESHOLD_TENTHS

\* _find_common_elements(lines, page_count)
FindCommonElements(lines, page_count) ==
    IF TooFewPages(page_count) THEN <<>>
    ELSE LET lines_without_digits == [i \in 1..Len(lines) |-> StripDigits(lines[i])]
             keep == {i \in 1..Len(lines) :
                         IsCommon(CountOf(lines_without_digits[i], lines_without_digits),
                                  page_count)}
         IN  [i \in keep |-> lines[i]]

\* set(header_footer_lines)
SetOf(f) == {f[i] : i \in DOMAIN f}

\* the documents of n pages
DocumentsOf(n) == [1..n -> SamplePages]

InitHf ==
    /\ hpc = "loop"
    /\ document \in UNION { DocumentsOf(n) : n \in 0..MaxDocPages }
    /\ max_selected_lines \in Windows
    /\ hf_page_id = 0
    /\ first_last_lines = <<>>
    /\ header_footer_lines = {}
    /\ ExecIdle
    /\ FmtIdle
    /\ ChunkIdle
    /\ TtsIdle
    /\ ParaIdle
    /\ TblIdle
    /\ ExtIdle
    /\ PodIdle

\* one iteration of `for page_id in range(len(document))`
SamplePage ==
    /\ hpc = "loop"
    /\ hf_page_id < Len(document)
    /\ LET nonblank_lines == NonblankLines(document[hf_page_id + 1])
       IN  first_last_lines' = first_last_lines
                \o FirstLines(nonblank_lines, max_selected_lines)
                \o LastLines(nonblank_lines, max_selected_lines)
    /\ hf_page_id' = hf_page_id + 1
    /\ UNCHANGED <<hpc, document, max_selected_lines, header_footer_lines>>
    /\ UNCHANGED <<execVars, fmtVars, chunkVars, ttsVars, paraVars, tblVars, extVars, podVars>>

\* after the loop: the common elements of the sample, as a set
ReturnHeaderFooter ==
    /\ hpc = "loop"
    /\ hf_page_id = Len(document)
    /\ header_footer_lines' = SetOf(FindCommonElements(first_last_lines, Len(document)))
    /\ hpc' = "done"
    /\ UNCHANGED <<document, max_selected_lines, hf_page_id, first_last_lines>>
    /\ UNCHANGED <<execVars, fmtVars, chunkVars, ttsVars, paraVars, tblVars, extVars, podVars>>

NextHf == SamplePage \/ ReturnHeaderFooter

SpecHf == InitHf /\ [][NextHf]_vars

(***************************************************************************)
(* Properties of the header and footer detection.                          *)
(***************************************************************************)
\* the lines of page p that are neither blank nor made of control characters
PageLines(p) ==
    LET page == document[p]
        ok == {i \in 1..Len(page) : NotBlank(page[i]) /\ NotBlankWithoutEscapes(page[i])}
    IN  [i \in ok |-> page[i]]

\* rank of position i among the positions of a page's lines
RankOf(f, i) == Cardinality({j \in DOMAIN f : j <= i})

\* how often the lines with the digit-stripped form d occur in the first k
\* and in the last k lines of page p, a line in both windows counting twice
OccurrencesOn(d, p, k) ==
    LET f == PageLines(p)
        n == Cardinality(DOMAIN f)
    IN  Cardinality({i \in DOMAIN f : StripDigits(f[i]) = d /\ RankOf(f, i) <= k})
          + Cardinality({i \in DOMAIN f : StripDigits(f[i]) = d /\ RankOf(f, i) > n - k})

RECURSIVE SumOver(_, _, _)
SumOver(d, p, k) == IF p = 0 THEN 0 ELSE OccurrencesOn(d, p, k) + SumOver(d, p - 1, k)

\* the lines in the first k or in the last k lines of page p
WindowOf(p, k) ==
    LET f == PageLines(p)
        n == Cardinality(DOMAIN f)
    IN  {f[i] : i \in {j \in DOMAIN f : RankOf(f, j) <= k \/ RankOf(f, j) > n - k}}

SampledLines == UNION { WindowOf(p, max_selected_lines) : p \in 1..Len(document) }

\* C13: a document of fewer than 3 pages has no header or footer lines,
\* whatever repeats in it.  With 3 pages or more the lines returned are
\* exactly the sampled lines whose digit-stripped form occurs more than
\* 0.6 x page_count times in the sample of first and last lines; hence a
\* line that is in the window of at least 61% of the pages is returned.
C13_BoilerplateDetection ==
    hpc = "done" =>
        LET page_count == Len(document)
            k == max_selected_lines
        IN  /\ page_count < 3 => header_footer_lines = {}
            /\ page_count >= 3 =>
                  /\ header_footer_lines =
                        {l \in SampledLines :
                            10 * SumOver(StripDigits(l), page_count, k) > 6 * page_count}
                  /\ \A l \in SampledLines :
                        100 * Cardinality({p \in 1..page_count : l \in WindowOf(p, k)})
                              >= 61 * page_count
                            => l \in header_footer_lines

\* three pages, the header on two of them and a numbered footer on each:
\* the header and the three footers are returned, the body line is not
C13_Witness ==
    /\ hpc = "done"
    /\ max_selected_lines = 1
    /\ document = << << <<"H">>, <<"x">>, <<"P", "1">> >>,
                     << <<"H">>, <<" ">>, <<"P", "2">> >>,
                     << <<"P", "3">> >> >>
    /\ header_footer_lines = { <<"H">>, <<"P", "1">>, <<"P", "2">>, <<"P", "3">> }

\* the pages that have, in their first k or last k lines, a line with the
\* digit-stripped form d
PagesWith(d, k) ==
    {p \in 1..Len(document) : \E l \in WindowOf(p, k) : StripDigits(l) = d}

\* C25 (as the specification states it): every line that detect_header_footer
\* returns occurs, up to its digits, in the first or last lines of more than
\* 0.6 x page_count distinct pages; a line found on one page only is never
\* returned.
C25_Original_BoilerplateOnEnoughPages ==
    hpc = "done" =>
        \A l \in header_footer_lines :
            10 * Cardinality(PagesWith(StripDigits(l), max_selected_lines))
                > 6 * Len(document)

(***************************************************************************)
(* is_paragraph_completed, src/pdf_reader/helpers.py, and                  *)
(* PDFReaderController.format_text, src/pdf_reader/controller.py           *)
(***************************************************************************)
Uppers == {"A", "B", "C", "D", "E", "F", "G", "H", "I", "J", "K", "L", "M",
           "N", "O", "P", "Q", "R", "S", "T", "U", "V", "W", "X", "Y", "Z"}

Lowers == {"a", "b", "c", "d", "e", "f", "g", "h", "i", "j", "k", "l", "m",
           "n", "o", "p", "q", "r", "s", "t", "u", "v", "w", "x", "y", "z"}

\* c.isupper()
IsUpper(c) == c \in Uppers

\* c.isalnum()
IsAlnum(c) == c \in Uppers \cup Lowers \cup Digits

\* [\.\)-]
ListPunctuation == {".", ")", "-"}

\* re.match(r"^\d+[\.\)-]", line) is not None
MatchesNumberedItem(line) ==
    \E n \in 1..(Len(line) - 1) :
        /\ \A i \in 1..n : line[i] \in Digits
        /\ line[n + 1] \in ListPunctuation

\* re.match(r"^[a-z][\.\)-]", line) is not None
MatchesLetteredItem(line) ==
    Len(line) >= 2 /\ line[1] \in Lowers /\ line[2] \in ListPunctuation

\* line.startswith("- ") or one of the two matches
IsListItem(line) ==
    \/ StartsWith(line, <<"-", " ">>)
    \/ MatchesNumberedItem(line)
    \/ MatchesLetteredItem(line)

MutantWithoutNumberedClause(last, blank, afterStop, nonAlnum, numbered, lettered, item, upper) ==
    last \/ blank \/ afterStop \/ nonAlnum \/ lettered \/ (item /\ upper)

MutantWithoutNonAlnumClause(last, blank, afterStop, nonAlnum, numbered, lettered, item, upper) ==
    last \/ blank \/ afterStop \/ numbered \/ lettered \/ (item /\ upper)

MutantListClauseOverAll(last, blank, afterStop, nonAlnum, numbered, lettered, item, upper) ==
    (last \/ blank \/ afterStop \/ nonAlnum \/ numbered \/ lettered \/ item) /\ upper

\* `A or B or C or D or E or F or (G) and H`: and binds tighter than or
CombineClauses(last, blank, afterStop, nonAlnum, numbered, lettered, item, upper) ==
    last \/ blank \/ afterStop \/ nonAlnum \/ numbered \/ lettered \/ (item /\ upper)

\* is_paragraph_completed(lines, line_id), line_id counted from 0; the
\* clauses to the right of a true one are not evaluated
IsParagraphCompleted(lines, line_id) ==
    IF line_id = Len(lines) - 1 THEN TRUE
    ELSE IF lines[line_id + 2] = <<>> THEN TRUE
    ELSE LET cur == lines[line_id + 1]
             next == lines[line_id + 2]
         IN  CombineClauses(FALSE, FALSE,
                            IsUpper(next[1]) /\ cur[Len(cur)] \in {".", ":"},
                            ~ IsAlnum(next[1]),
                            MatchesNumberedItem(next),
                            MatchesLetteredItem(next),
                            IsListItem(cur),
                            IsUpper(next[1]))

\* the decimal digits of n
RECURSIVE DecStr(_)
DecStr(n) ==
    LET d == <<"0", "1", "2", "3", "4", "5", "6", "7", "8", "9">>[(n % 10) + 1]
    IN  IF n < 10 THEN <<d>> ELSE Append(DecStr(n \div 10), d)

\* int(digits)
RECURSIVE DecInt(_)
DecInt(ds) ==
    IF ds = <<>> THEN 0
    ELSE 10 * DecInt(SubSeq(ds, 1, Len(ds) - 1))
           + (CHOOSE v \in 0..9 : DecStr(v) = <<ds[Len(ds)]>>)

\* f"[PAGE_{page_id}_TABLE_{table_id}]"
Placeholder(p, t) ==
    <<"[", "P", "A", "G", "E", "_">> \o DecStr(p)
        \o <<"_", "T", "A", "B", "L", "E", "_">> \o DecStr(t) \o <<"]">>

\* the ways to read line as [PAGE_<digits>_TABLE_<digits>]: the positions of
\* the last digit of the page and of the first digit of the table
TableRefParses(line) ==
    {a \in 7..Len(line) :
        /\ SubSeq(line, 1, 6) = <<"[", "P", "A", "G", "E", "_">>
        /\ \A i \in 7..a : line[i] \in Digits
        /\ a + 8 < Len(line)
        /\ SubSeq(line, a + 1, a + 7) = <<"_", "T", "A", "B", "L", "E", "_">>
        /\ \A i \in (a + 8)..(Len(line) - 1) : line[i] \in Digits
        /\ line[Len(line)] = "]"}

\* re.fullmatch(pattern=r"\[PAGE_\d+_TABLE_\d+\]", string=line)
IsTableRef(line) == TableRefParses(line) # {}

\* re.findall(r"\[PAGE_(\d+)_TABLE_(\d+)\]", line)[0], as integers
TableRefIds(line) ==
    LET a == CHOOSE x \in TableRefParses(line) : TRUE
    IN  [page |-> DecInt(SubSeq(line, 7, a)),
         table |-> DecInt(SubSeq(line, a + 8, Len(line) - 1))]

\* text.splitlines(), the lines ending at "\n"
SplitLines(text) ==
    LET pieces == StrSplit(text, <<"\n">>)
    IN  IF pieces[Len(pieces)] = <<>> THEN SubSeq(pieces, 1, Len(pieces) - 1) ELSE pieces

\* sep.join(parts)
RECURSIVE Join(_, _)
Join(sep, parts) ==
    IF parts = <<>> THEN <<>>
    ELSE IF Len(parts) = 1 THEN parts[1]
    ELSE parts[1] \o sep \o Join(sep, Tail(parts))

\* s.strip("\n")
RECURSIVE StripNewlines(_)
StripNewlines(s) ==
    IF s # <<>> /\ Head(s) = "\n" THEN StripNewlines(Tail(s))
    ELSE IF s # <<>> /\ s[Len(s)] = "\n" THEN StripNewlines(SubSeq(s, 1, Len(s) - 1))
    ELSE s

\* markdown_tables_in_pages[page][table] raises for a page or a table that
\* is not there
HasTable(lookup, ids) ==
    ids.page \in DOMAIN lookup /\ ids.table + 1 \in DOMAIN lookup[ids.page]

\* lines = [line for line in text.splitlines() if line.strip() != ""]
ProseLines(text) == SelectSeq(SplitLines(text), NotBlank)

MutantStaleRefEmptiesPage(st, lines, line_id, lookup) ==
    LET line == lines[line_id + 1]
    IN  IF IsTableRef(line)
        THEN IF HasTable(lookup, TableRefIds(line))
             THEN [st EXCEPT !.formatted_text =
                      Append(@, StripNewlines(
                          lookup[TableRefIds(line).page][TableRefIds(line).table + 1]))]
             ELSE [formatted_text |-> <<>>, paragraph |-> <<>>]
        ELSE LET appended == Append(st.paragraph, line)
             IN  IF IsParagraphCompleted(lines, line_id)
                 THEN [formatted_text |-> Append(st.formatted_text, Join(<<" ">>, appended)),
                       paragraph |-> <<>>]
                 ELSE [formatted_text |-> st.formatted_text, paragraph |-> appended]

\* the body of the for loop of format_text on
\* [formatted_text, paragraph], for the line at line_id
FormatLine(st, lines, line_id, lookup) ==
    LET line == lines[line_id + 1]
    IN  IF IsTableRef(line)
        THEN IF HasTable(lookup, TableRefIds(line))
             THEN [st EXCEPT !.formatted_text =
                      Append(@, StripNewlines(
                          lookup[TableRefIds(line).page][TableRefIds(line).table + 1]))]
             ELSE st
        ELSE LET appended == Append(st.paragraph, line)
             IN  IF IsParagraphCompleted(lines, line_id)
                 THEN [formatted_text |-> Append(st.formatted_text, Join(<<" ">>, appended)),
                       paragraph |-> <<>>]
                 ELSE [formatted_text |-> st.formatted_text, paragraph |-> appended]

RECURSIVE FormatLoop(_, _, _, _)
FormatLoop(st, lines, line_id, lookup) ==
    IF line_id = Len(lines) THEN st
    ELSE FormatLoop(FormatLine(st, lines, line_id, lookup), lines, line_id + 1, lookup)

\* format_text(text, markdown_tables_in_pages)
FormatText(text, lookup) ==
    Join(<<"\n">>,
         FormatLoop([formatted_text |-> <<>>, paragraph |-> <<>>],
                    ProseLines(text), 0, lookup).formatted_text)

\* the texts given to format_text have at most MaxParaLines lines
MaxParaLines == 3

\* the lines the texts are written from: plain lines, lines ending a
\* sentence or opening an enumeration, list items, a blank line, and the
\* references to a table that is in the lookup, to a table that is not on
\* its page and to a page that is not in the lookup
ParaSampleLines ==
    { <<"F", "o", "o">>, <<"b", "a", "r">>, <<"B", "a", "z", ".">>,
      <<"Q", "u", "x">>, <<"T", "o", ":">>, <<"-", " ", "i", "t">>,
      <<"1", ".", " ", "x">>, <<"a", ")", " ", "y">>, <<" ">>,
      Placeholder(0, 0), Placeholder(0, 1), Placeholder(1, 0) }

\* the lookup given to format_text: one table on page 0
ParaTables == (0 :> << <<"|", "t", "|", "\n">> >>)

InitPara ==
    /\ ppc = "loop"
    /\ para_input \in UNION { [1..n -> ParaSampleLines] : n \in 0..MaxParaLines }
    /\ para_text = Join(<<"\n">>, para_input)
    /\ para_tables = ParaTables
    /\ para_lines = ProseLines(para_text)
    /\ para_line_id = 0
    /\ paragraph = <<>>
    /\ formatted_text = <<>>
    /\ para_returned = <<>>
    /\ para_second = <<>>
    /\ completed = <<>>
    /\ ExecIdle
    /\ FmtIdle
    /\ ChunkIdle
    /\ TtsIdle
    /\ HfIdle
    /\ TblIdle
    /\ ExtIdle
    /\ PodIdle

\* one iteration of `for line_id, line in enumerate(lines)`
FormatNextLine ==
    /\ ppc = "loop"
    /\ para_line_id < Len(para_lines)
    /\ LET st == FormatLine([formatted_text |-> formatted_text, paragraph |-> paragraph],
                            para_lines, para_line_id, para_tables)
       IN  /\ formatted_text' = st.formatted_text
           /\ paragraph' = st.paragraph
    /\ completed' =
          IF IsTableRef(para_lines[para_line_id + 1]) THEN completed
          ELSE Append(completed,
                      [line_id |-> para_line_id,
                       value |-> IsParagraphCompleted(para_lines, para_line_id)])
    /\ para_line_id' = para_line_id + 1
    /\ UNCHANGED <<ppc, para_input, para_text, para_tables, para_lines, para_returned,
                   para_second>>
    /\ UNCHANGED <<execVars, fmtVars, chunkVars, ttsVars, hfVars, tblVars, extVars, podVars>>

\* return "\n".join(formatted_text)
ReturnFormatted ==
    /\ ppc = "loop"
    /\ para_line_id = Len(para_lines)
    /\ para_returned' = Join(<<"\n">>, formatted_text)
    /\ ppc' = "done"
    /\ UNCHANGED <<para_input, para_text, para_tables, para_lines, para_line_id,
                   paragraph, formatted_text, para_second, completed>>
    /\ UNCHANGED <<execVars, fmtVars, chunkVars, ttsVars, hfVars, tblVars, extVars, podVars>>

\* format_text is called again, on the string it returned
FormatAgain ==
    /\ ppc = "done"
    /\ para_second' = FormatText(para_returned, para_tables)
    /\ ppc' = "again"
    /\ UNCHANGED <<para_input, para_text, para_tables, para_lines, para_line_id,
                   paragraph, formatted_text, para_returned, completed>>
    /\ UNCHANGED <<execVars, fmtVars, chunkVars, ttsVars, hfVars, tblVars, extVars, podVars>>

NextPara == FormatNextLine \/ ReturnFormatted \/ FormatAgain

SpecPara == InitPara /\ [][NextPara]_vars

(***************************************************************************)
(* Properties of the paragraph reconstruction.                             *)
(***************************************************************************)
\* the conditions under which the paragraph ends with the line at position
\* i (counted from 1) of lines
ParagraphEndsAt(lines, i) ==
    \/ i = Len(lines)
    \/ /\ i < Len(lines)
       /\ LET cur == lines[i]
              next == lines[i + 1]
          IN  \/ next = <<>>
              \/ /\ next # <<>>
                 /\ \/ next[1] \in Uppers /\ cur[Len(cur)] \in {".", ":"}
                    \/ next[1] \notin (Uppers \cup Lowers \cup Digits)
                    \/ MatchesNumberedItem(next) \/ MatchesLetteredItem(next)
                    \/ IsListItem(cur) /\ next[1] \in Uppers

\* C16: at every position of the non-blank lines, is_paragraph_completed is
\* true exactly when the line is the last, or the next line is blank, or the
\* next line starts with an uppercase letter and the line ends with "." or
\* ":", or the next line starts with a character that is no letter and no
\* digit, or the next line opens a numbered or lettered item, or the line is
\* a list item and the next line starts with an uppercase letter.  "Baz."
\* then "Qux" are two paragraphs; "Foo" then "bar" are the one paragraph
\* "Foo bar".
C16_ParagraphBoundary ==
    /\ \A k \in 1..Len(completed) :
          completed[k].value = ParagraphEndsAt(para_lines, completed[k].line_id + 1)
    /\ \A i \in 1..Len(para_lines) : para_lines[i] # <<>> /\ NotBlank(para_lines[i])
    /\ ppc = "done" =>
          /\ para_input = << <<"B", "a", "z", ".">>, <<"Q", "u", "x">> >>
                => para_returned = <<"B", "a", "z", ".", "\n", "Q", "u", "x">>
          /\ para_input = << <<"F", "o", "o">>, <<"b", "a", "r">> >>
                => para_returned = <<"F", "o", "o", " ", "b", "a", "r">>

\* "Foo", "bar", "Baz.", then "Qux": the first three lines are one
\* paragraph, ended by the full stop before the uppercase letter
C16_Witness ==
    /\ ppc = "done"
    /\ para_input = << <<"F", "o", "o">>, <<"b", "a", "r">>, <<"B", "a", "z", ".">> >>
    /\ completed = << [line_id |-> 0, value |-> FALSE], [line_id |-> 1, value |-> FALSE],
                      [line_id |-> 2, value |-> TRUE] >>
    /\ para_returned = <<"F", "o", "o", " ", "b", "a", "r", " ", "B", "a", "z", ".">>

\* no line of the input is a reference to a table
NoTableRefs == \A i \in 1..Len(para_input) : ~ IsTableRef(para_input[i])

\* C17: for a text without references to tables, format_text applied to the
\* string it returned gives that string again: the paragraphs of the first
\* pass are the lines of the second, and each is a paragraph of its own.
C17_FormatTextIdempotent ==
    (ppc = "again" /\ NoTableRefs) =>
        /\ para_second = para_returned
        /\ ProseLines(para_returned) = formatted_text
        /\ \A i \in 1..Len(formatted_text) :
              IsParagraphCompleted(formatted_text, i - 1)

\* a line, a numbered item and an uppercase line: three paragraphs in the
\* first pass, the same three in the second
C17_Witness ==
    /\ ppc = "again"
    /\ para_input = << <<"F", "o", "o">>, <<"1", ".", " ", "x">>, <<"Q", "u", "x">> >>
    /\ formatted_text = para_input
    /\ para_returned = <<"F", "o", "o", "\n", "1", ".", " ", "x", "\n", "Q", "u", "x">>
    /\ para_second = para_returned

\* the reference of line is to a page or to a table that the lookup has not
IsStaleRef(line, lookup) == IsTableRef(line) /\ ~ HasTable(lookup, TableRefIds(line))

\* what the lines have to give, one after the other: a line of prose itself,
\* a reference that resolves its table without the newlines around it, a
\* stale reference nothing
RECURSIVE ItemsOf(_, _)
ItemsOf(lines, lookup) ==
    IF lines = <<>> THEN <<>>
    ELSE LET line == Head(lines)
             rest == ItemsOf(Tail(lines), lookup)
         IN  IF ~ IsTableRef(line) THEN <<line>> \o rest
             ELSE IF IsStaleRef(line, lookup) THEN rest
             ELSE <<StripNewlines(lookup[TableRefIds(line).page][TableRefIds(line).table + 1])>>
                      \o rest

\* C21: when a line of the text is a table placeholder whose page or whose
\* table is not in the lookup, format_text returns (nothing is raised), the
\* placeholder is not in what it returns, and the other lines of prose and
\* the blocks of the tables that resolve are all there, in the order of the
\* text
C21_StalePlaceholderDropped ==
    (ppc # "loop" /\ \E i \in 1..Len(para_lines) : IsStaleRef(para_lines[i], para_tables)) =>
        /\ para_returned = Join(<<"\n">>, formatted_text)
        /\ Join(<<" ">>, formatted_text) = Join(<<" ">>, ItemsOf(para_lines, para_tables))
        /\ \A i \in 1..Len(para_lines) :
              IsStaleRef(para_lines[i], para_tables) =>
                  ~ IsSubstring(para_lines[i], para_returned)

\* a line, a placeholder of a page that is not in the lookup, a placeholder
\* that resolves: the line and the table are returned
C21_Witness ==
    /\ ppc = "done"
    /\ para_input = << <<"F", "o", "o">>, Placeholder(1, 0), Placeholder(0, 0) >>
    /\ para_returned = <<"F", "o", "o", "\n", "|", "t", "|">>

\* the paragraph being read, as the block it will be
PendingParagraph == IF paragraph = <<>> THEN <<>> ELSE <<Join(<<" ">>, paragraph)>>

\* C27: format_text loses no prose.  The lines read are the non-blank lines
\* of the text; at every point of the loop the blocks written so far,
\* followed by the paragraph being read, hold the lines of prose read so
\* far, each once and in the order of the text (with the tables that
\* resolve at their places); the paragraph buffer is empty whenever the
\* next line to process is a table placeholder, and when the function
\* returns.
C27_NoProseLost ==
    /\ para_lines = SelectSeq(para_input, NotBlank)
    /\ Join(<<" ">>, formatted_text \o PendingParagraph)
          = Join(<<" ">>, ItemsOf(SubSeq(para_lines, 1, para_line_id), para_tables))
    /\ (ppc = "loop" /\ para_line_id < Len(para_lines)
           /\ IsTableRef(para_lines[para_line_id + 1])) => paragraph = <<>>
    /\ ppc # "loop" =>
          /\ paragraph = <<>>
          /\ para_line_id = Len(para_lines)
          /\ para_returned = Join(<<"\n">>, formatted_text)

\* a line that would go on ("Foo" then "bar") with a placeholder in
\* between: "Foo" is written before the table, "bar" after it
C27_Witness ==
    /\ ppc = "done"
    /\ para_input = << <<"F", "o", "o">>, Placeholder(0, 0), <<"b", "a", "r">> >>
    /\ para_returned = <<"F", "o", "o", "\n", "|", "t", "|", "\n", "b", "a", "r">>

(***************************************************************************)
(* PDFReaderController.extract_formatted_text, the lines of one page:      *)
(* tagging of the lines of tables, correction, removal of repeats          *)
(* (src/pdf_reader/controller.py), and decode_html_entities                *)
(* (src/pdf_reader/helpers.py)                                             *)
(***************************************************************************)
\* the pages have at most MaxPageLines lines
MaxPageLines == 4

\* the named character references that html.unescape meets in the tables
\* tried
HtmlEntities ==
    { [name |-> <<"&", "l", "t", ";">>, char |-> "<"],
      [name |-> <<"&", "g", "t", ";">>, char |-> ">"],
      [name |-> <<"&", "a", "m", "p", ";">>, char |-> "&"] }

\* decode_html_entities(text): one pass from the left, each reference
\* replaced by its character
RECURSIVE DecodeHtmlEntities(_)
DecodeHtmlEntities(text) ==
    IF text = <<>> THEN <<>>
    ELSE LET hits == {e \in HtmlEntities : StartsWith(text, e.name)}
         IN  IF hits = {} THEN <<Head(text)>> \o DecodeHtmlEntities(Tail(text))
             ELSE LET e == CHOOSE h \in hits : TRUE
                  IN  <<e.char>> \o DecodeHtmlEntities(SubSeq(text, Len(e.name) + 1, Len(text)))

\* all([word in decode_html_entities(table) for word in line.split()]):
\* `in` on strings is true when the word is written anywhere in the text
AllWordsIn(line, table) ==
    \A w \in 1..Len(Words(line)) : IsSubstring(Words(line)[w], DecodeHtmlEntities(table))

\* the tables of the pages tried, in markdown
TableA == <<"|", "a", "|", "&", "l", "t", ";", "|", "\n">>

TableB == <<"|", "c", "|", "\n">>

TableC == <<"|", "a", "c", "|", "\n">>

\* the lists of tables found on the page
SampleTables ==
    { <<>>, <<TableA>>, <<TableA, TableB>>, <<TableB, TableA>>,
      <<TableC, TableA>>, <<TableA, TableC>> }

\* the lines of the pages tried: cells of the tables, a line of prose, a
\* blank line
SampleLines == { <<"a">>, <<"<">>, <<"c">>, <<"p", " ", "q">>, <<" ">> }

\* the page whose lines are read
SamplePageId == 1

\* the index in tables of the first table that has all the words of line,
\* 0 when there is none
FirstMatch(line, ts) ==
    LET hits == {t \in 1..Len(ts) : AllWordsIn(line, ts[t])}
    IN  IF hits = {} THEN 0 ELSE CHOOSE t \in hits : \A u \in hits : t <= u

\* x in xs
IsIn(x, xs) == \E i \in 1..Len(xs) : xs[i] = x

MutantCompleteWhenNotSeen(line, seen) == ~ IsIn(line, seen)

\* the else branch of the correction loop, `current_line not in
\* seen_full_tables` being false: the table the line refers to was taken
\* as complete before
IsCompleteTable(line, seen) == IsIn(line, seen)

MutantNeverRepeated(line, seen) == FALSE

\* the else branch of the removal loop: the line refers to a table that was
\* seen before
IsRepeated(line, seen) == IsIn(line, seen)

\* np.delete(page_lines, lines_ids_to_remove)
Delete(lines, ids) ==
    LET keep == {i \in 1..Len(lines) : ~ IsIn(i - 1, ids)}
    IN  [k \in 1..Cardinality(keep) |->
            lines[CHOOSE i \in keep : Cardinality({j \in keep : j <= i}) = k]]

InitTbl ==
    /\ rpc = "tag"
    /\ tbl_page_id = SamplePageId
    /\ tables \in SampleTables
    /\ raw_lines \in UNION { [1..n -> SampleLines] : n \in 0..MaxPageLines }
    /\ page_lines = raw_lines
    /\ tbl_i = 0
    /\ lines_ids_w_table_content = <<>>
    /\ seen_full_tables = <<>>
    /\ lines_ids_to_remove = <<>>
    /\ first_tags = <<>>
    /\ corrected_tags = <<>>
    /\ page_text = <<>>
    /\ ExecIdle
    /\ FmtIdle
    /\ ChunkIdle
    /\ TtsIdle
    /\ HfIdle
    /\ ParaIdle
    /\ ExtIdle
    /\ PodIdle

\* one iteration of `for line_id, line in enumerate(page_lines)`: the line
\* is tagged with the first table that has all its words
TagLine ==
    /\ rpc = "tag"
    /\ tbl_i < Len(page_lines)
    /\ LET table_id == FirstMatch(page_lines[tbl_i + 1], tables) - 1
       IN  IF table_id >= 0
           THEN /\ page_lines' = [page_lines EXCEPT
                                     ![tbl_i + 1] = Placeholder(tbl_page_id, table_id)]
                /\ lines_ids_w_table_content' = Append(lines_ids_w_table_content, tbl_i)
           ELSE UNCHANGED <<page_lines, lines_ids_w_table_content>>
    /\ tbl_i' = tbl_i + 1
    /\ UNCHANGED <<rpc, tbl_page_id, tables, raw_lines, seen_full_tables,
                   lines_ids_to_remove, first_tags, corrected_tags, page_text>>
    /\ UNCHANGED <<execVars, fmtVars, chunkVars, ttsVars, hfVars, paraVars, extVars, podVars>>

\* the first loop is over: seen_full_tables = []
BeginCorrection ==
    /\ rpc = "tag"
    /\ tbl_i = Len(page_lines)
    /\ rpc' = "correct"
    /\ tbl_i' = 0
    /\ seen_full_tables' = <<>>
    /\ first_tags' = page_lines
    /\ UNCHANGED <<tbl_page_id, tables, raw_lines, page_lines, lines_ids_w_table_content,
                   lines_ids_to_remove, corrected_tags, page_text>>
    /\ UNCHANGED <<execVars, fmtVars, chunkVars, ttsVars, hfVars, paraVars, extVars, podVars>>

\* one iteration of `for line_id in lines_ids_w_table_content` of the
\* correction
CorrectLine ==
    /\ rpc = "correct"
    /\ tbl_i < Len(lines_ids_w_table_content)
    /\ LET line_id == lines_ids_w_table_content[tbl_i + 1]
           current_line == page_lines[line_id + 1]
       IN  IF /\ line_id > 0
              /\ IsTableRef(page_lines[line_id])
              /\ page_lines[line_id] # current_line
           THEN IF ~ IsCompleteTable(current_line, seen_full_tables)
                THEN /\ seen_full_tables' = Append(seen_full_tables, page_lines[line_id])
                     /\ UNCHANGED page_lines
                ELSE /\ page_lines' = [page_lines EXCEPT ![line_id + 1] = page_lines[line_id]]
                     /\ UNCHANGED seen_full_tables
           ELSE UNCHANGED <<page_lines, seen_full_tables>>
    /\ tbl_i' = tbl_i + 1
    /\ UNCHANGED <<rpc, tbl_page_id, tables, raw_lines, lines_ids_w_table_content,
                   lines_ids_to_remove, first_tags, corrected_tags, page_text>>
    /\ UNCHANGED <<execVars, fmtVars, chunkVars, ttsVars, hfVars, paraVars, extVars, podVars>>

\* the correction is over: lines_ids_to_remove = []
BeginRemoval ==
    /\ rpc = "correct"
    /\ tbl_i = Len(lines_ids_w_table_content)
    /\ rpc' = "dedup"
    /\ tbl_i' = 0
    /\ lines_ids_to_remove' = <<>>
    /\ corrected_tags' = page_lines
    /\ UNCHANGED <<tbl_page_id, tables, raw_lines, page_lines, lines_ids_w_table_content,
                   seen_full_tables, first_tags, page_text>>
    /\ UNCHANGED <<execVars, fmtVars, chunkVars, ttsVars, hfVars, paraVars, extVars, podVars>>

\* one iteration of `for i, line_id in enumerate(lines_ids_w_table_content)`
\* of the removal of repeats
MarkRepeat ==
    /\ rpc = "dedup"
    /\ tbl_i < Len(lines_ids_w_table_content)
    /\ LET line == page_lines[lines_ids_w_table_content[tbl_i + 1] + 1]
       IN  IF tbl_i = 0
           THEN /\ seen_full_tables' = <<line>>
                /\ UNCHANGED lines_ids_to_remove
           ELSE IF ~ IsRepeated(line, seen_full_tables)
           THEN /\ seen_full_tables' = Append(seen_full_tables, line)
                /\ UNCHANGED lines_ids_to_remove
           ELSE /\ lines_ids_to_remove' =
                      Append(lines_ids_to_remove, lines_ids_w_table_content[tbl_i + 1])
                /\ UNCHANGED seen_full_tables
    /\ tbl_i' = tbl_i + 1
    /\ UNCHANGED <<rpc, tbl_page_id, tables, raw_lines, page_lines,
                   lines_ids_w_table_content, first_tags, corrected_tags, page_text>>
    /\ UNCHANGED <<execVars, fmtVars, chunkVars, ttsVars, hfVars, paraVars, extVars, podVars>>

\* the repeats are deleted, the lines joined, the text of the page formatted
FormatPage ==
    /\ rpc = "dedup"
    /\ tbl_i = Len(lines_ids_w_table_content)
    /\ page_lines' = Delete(page_lines, lines_ids_to_remove)
    /\ page_text' = FormatText(Join(<<"\n">>, page_lines'), (tbl_page_id :> tables))
    /\ rpc' = "done"
    /\ UNCHANGED <<tbl_page_id, tables, raw_lines, tbl_i, lines_ids_w_table_content,
                   seen_full_tables, lines_ids_to_remove, first_tags, corrected_tags>>
    /\ UNCHANGED <<execVars, fmtVars, chunkVars, ttsVars, hfVars, paraVars, extVars, podVars>>

NextTbl ==
    TagLine \/ BeginCorrection \/ CorrectLine \/ BeginRemoval \/ MarkRepeat \/ FormatPage

SpecTbl == InitTbl /\ [][NextTbl]_vars

(***************************************************************************)
(* Properties of the table resolution.                                     *)
(***************************************************************************)
\* the positions of lines that hold the placeholder of table t (from 0)
PositionsOf(lines, t) ==
    {i \in 1..Len(lines) : lines[i] = Placeholder(tbl_page_id, t)}

\* the blocks format_text puts out for the lines of the page
BlocksOf(lines) ==
    FormatLoop([formatted_text |-> <<>>, paragraph |-> <<>>],
               ProseLines(Join(<<"\n">>, lines)), 0, (tbl_page_id :> tables)).formatted_text

\* C14: after the tables of a page are resolved, the placeholder of each
\* table is in at most one line of the page, the first line that held it
\* after the correction (a repeat is dropped whether it follows at once or
\* later), the other lines stay in their order, and the markdown of the
\* table is put out at most once in the text of the page.
C14_TableRenderedOnce ==
    rpc = "done" =>
        /\ \A t \in 0..(Len(tables) - 1) :
              /\ Cardinality(PositionsOf(page_lines, t)) <= 1
              /\ PositionsOf(page_lines, t) = {} <=> PositionsOf(corrected_tags, t) = {}
              /\ Cardinality({b \in 1..Len(BlocksOf(page_lines)) :
                                 BlocksOf(page_lines)[b] = StripNewlines(tables[t + 1])}) <= 1
        /\ LET first == {i \in 1..Len(corrected_tags) :
                            ~ (IsTableRef(corrected_tags[i])
                               /\ \E j \in 1..(i - 1) : corrected_tags[j] = corrected_tags[i])}
           IN  /\ Len(page_lines) = Cardinality(first)
               /\ \A i \in first :
                     page_lines[Cardinality({j \in first : j <= i})] = corrected_tags[i]
        /\ page_text = Join(<<"\n">>, BlocksOf(page_lines))

\* table A, table B, a line of prose and table A again: the second line of
\* table A is dropped, each table is put out once
C14_Witness ==
    /\ rpc = "done"
    /\ tables = <<TableA, TableB>>
    /\ raw_lines = << <<"a">>, <<"c">>, <<"p", " ", "q">>, <<"<">> >>
    /\ corrected_tags = << Placeholder(1, 0), Placeholder(1, 1), <<"p", " ", "q">>,
                           Placeholder(1, 0) >>
    /\ page_lines = << Placeholder(1, 0), Placeholder(1, 1), <<"p", " ", "q">> >>
    /\ page_text = <<"|", "a", "|", "&", "l", "t", ";", "|", "\n",
                     "|", "c", "|", "\n", "p", " ", "q">>

\* the words of the rendered content of table t (from 1)
TableWords(t) ==
    LET ws == Words(DecodeHtmlEntities(tables[t]))
    IN  {ws[i] : i \in 1..Len(ws)}

\* C15 (as the specification states it): when two tables of a page share no
\* word, a line all of whose words occur in the content of the one is not
\* tagged with the placeholder of the other, neither by the first-match loop
\* nor by the correction loop, whatever the order of the lines and of the
\* tables.
C15_Original_NeverTaggedAsOtherTable ==
    \A i \in 1..Len(raw_lines) : \A ta, tb \in 1..Len(tables) :
        ( /\ ta # tb
          /\ TableWords(ta) \cap TableWords(tb) = {}
          /\ NotBlank(raw_lines[i])
          /\ AllWordsIn(raw_lines[i], tables[ta]) )
        => /\ rpc \in {"correct", "dedup", "done"} =>
                 first_tags[i] # Placeholder(tbl_page_id, tb - 1)
           /\ rpc \in {"dedup", "done"} =>
                 corrected_tags[i] # Placeholder(tbl_page_id, tb - 1)

(***************************************************************************)
(* The per-page work of extract_formatted_text as operators, and the two   *)
(* functions that read the pages of a document:                            *)
(* PDFReaderController.extract_formatted_text (src/pdf_reader/             *)
(* controller.py) and extract_text_from_pdf (src/inference.py)             *)
(***************************************************************************)
\* the first loop on the lines of a page: each line tagged with its first
\* match
TagAll(lines, ts, p) ==
    [i \in 1..Len(lines) |->
        IF FirstMatch(lines[i], ts) > 0
        THEN Placeholder(p, FirstMatch(lines[i], ts) - 1)
        ELSE lines[i]]

\* lines_ids_w_table_content after the first loop, the ids counted from 0
TaggedIds(lines, ts) ==
    LET hit == {i \in 1..Len(lines) : FirstMatch(lines[i], ts) > 0}
    IN  [k \in 1..Cardinality(hit) |->
            (CHOOSE i \in hit : Cardinality({j \in hit : j <= i}) = k) - 1]

\* the correction loop from the k-th tagged line on
RECURSIVE CorrectFrom(_, _, _, _)
CorrectFrom(lines, seen, ids, k) ==
    IF k > Len(ids) THEN lines
    ELSE LET line_id == ids[k]
             current_line == lines[line_id + 1]
         IN  IF line_id > 0 /\ IsTableRef(lines[line_id]) /\ lines[line_id] # current_line
             THEN IF ~ IsCompleteTable(current_line, seen)
                  THEN CorrectFrom(lines, Append(seen, lines[line_id]), ids, k + 1)
                  ELSE CorrectFrom([lines EXCEPT ![line_id + 1] = lines[line_id]],
                                   seen, ids, k + 1)
             ELSE CorrectFrom(lines, seen, ids, k + 1)

\* lines_ids_to_remove: the removal loop from the k-th tagged line on
RECURSIVE RepeatsFrom(_, _, _, _)
RepeatsFrom(lines, seen, ids, k) ==
    IF k > Len(ids) THEN <<>>
    ELSE LET line == lines[ids[k] + 1]
         IN  IF k = 1 THEN RepeatsFrom(lines, <<line>>, ids, k + 1)
             ELSE IF ~ IsRepeated(line, seen)
             THEN RepeatsFrom(lines, Append(seen, line), ids, k + 1)
             ELSE <<ids[k]>> \o RepeatsFrom(lines, seen, ids, k + 1)

\* page_lines after the three loops
ResolveTables(lines, ts, p) ==
    LET ids == TaggedIds(lines, ts)
        corrected == CorrectFrom(TagAll(lines, ts, p), <<>>, ids, 1)
    IN  Delete(corrected, RepeatsFrom(corrected, <<>>, ids, 1))

\* detect_header_footer(document, max_selected_lines)
RECURSIVE FirstLastLines(_, _)
FirstLastLines(doc, k) ==
    IF doc = <<>> THEN <<>>
    ELSE FirstLines(NonblankLines(Head(doc)), k)
             \o LastLines(NonblankLines(Head(doc)), k)
             \o FirstLastLines(Tail(doc), k)

DetectHeaderFooter(doc, k) == SetOf(FindCommonElements(FirstLastLines(doc, k), Len(doc)))

\* get_text_bounded() of a page: its lines, each ended by a line break
TextOfPage(page) == Join(<<"\n">>, page)

\* [line for line in page_text.splitlines()
\*  if line.strip() not in header_footer_lines]
WithoutHeaderFooter(text, hf) ==
    LET lines == SplitLines(text)
        keep == {i \in 1..Len(lines) : Strip(lines[i]) \notin hf}
    IN  [k \in 1..Cardinality(keep) |->
            lines[CHOOSE i \in keep : Cardinality({j \in keep : j <= i}) = k]]

\* find_tables_in_pages for the documents tried: one table, on page 0
TableX == <<"|", "x", "|", "\n">>

FindTablesInPages(ps) == [p \in {ps[i] : i \in 1..Len(ps)} |-> IF p = 0 THEN <<TableX>> ELSE <<>>]

\* the text of page p as extract_formatted_text builds it
FormattedPage(doc, p, hf, lookup) ==
    FormatText(Join(<<"\n">>,
                    ResolveTables(WithoutHeaderFooter(TextOfPage(doc[p + 1]), hf),
                                  lookup[p], p)),
               lookup)

\* the text of page p as extract_text_from_pdf builds it
CleanedPage(doc, p, hf) == Join(<<"\n">>, WithoutHeaderFooter(TextOfPage(doc[p + 1]), hf))

\* range(n)
Range(n) == [i \in 1..n |-> i - 1]

\* separator_between_pages: str = "\n"
SEPARATOR_BETWEEN_PAGES == <<"\n">>

\* `except Exception: return ""`
OnPageFailure(text) == <<>>

InitExt ==
    /\ xpc = "loop"
    /\ ext_impl \in {"extract_formatted_text", "extract_text_from_pdf"}
    /\ ext_doc \in UNION { DocumentsOf(n) : n \in 1..MaxDocPages }
    /\ ext_pages \in {Range(Len(ext_doc)), <<0>>}
    /\ ext_fail \in { {} } \cup { {p} : p \in 0..(Len(ext_doc) - 1) }
    /\ ext_k = 0
    /\ ext_header_footer = DetectHeaderFooter(ext_doc, DEFAULT_MAX_SELECTED_LINES)
    /\ pdf_text = <<>>
    /\ text_from_pages = <<>>
    /\ ext_returned = [text |-> <<>>, pages |-> <<>>]
    /\ ExecIdle
    /\ FmtIdle
    /\ ChunkIdle
    /\ TtsIdle
    /\ HfIdle
    /\ ParaIdle
    /\ TblIdle
    /\ PodIdle

\* one iteration of `for page_id in pages or range(len(...))` in which
\* get_text_bounded() returns the text of the page
ExtractPage ==
    /\ xpc = "loop"
    /\ ext_k < Len(ext_pages)
    /\ ext_pages[ext_k + 1] \notin ext_fail
    /\ LET p == ext_pages[ext_k + 1]
       IN  IF ext_impl = "extract_formatted_text"
           THEN /\ pdf_text' = pdf_text
                      \o FormattedPage(ext_doc, p, ext_header_footer,
                                       FindTablesInPages(ext_pages))
                      \o (IF p + 1 < Len(ext_doc) THEN SEPARATOR_BETWEEN_PAGES ELSE <<>>)
                /\ UNCHANGED text_from_pages
           ELSE /\ text_from_pages' =
                      Append(text_from_pages, CleanedPage(ext_doc, p, ext_header_footer))
                /\ UNCHANGED pdf_text
    /\ ext_k' = ext_k + 1
    /\ UNCHANGED <<xpc, ext_impl, ext_doc, ext_pages, ext_fail, ext_header_footer,
                   ext_returned>>
    /\ UNCHANGED <<execVars, fmtVars, chunkVars, ttsVars, hfVars, paraVars, tblVars, podVars>>

\* get_text_bounded() raises on the page: extract_formatted_text catches the
\* exception around its whole body and returns "", extract_text_from_pdf
\* lets it through
PageRaises ==
    /\ xpc = "loop"
    /\ ext_k < Len(ext_pages)
    /\ ext_pages[ext_k + 1] \in ext_fail
    /\ IF ext_impl = "extract_formatted_text"
       THEN /\ ext_returned' = [ext_returned EXCEPT !.text = OnPageFailure(pdf_text)]
            /\ xpc' = "returned"
       ELSE /\ xpc' = "raised"
            /\ UNCHANGED ext_returned
    /\ UNCHANGED <<ext_impl, ext_doc, ext_pages, ext_fail, ext_k, ext_header_footer,
                   pdf_text, text_from_pages>>
    /\ UNCHANGED <<execVars, fmtVars, chunkVars, ttsVars, hfVars, paraVars, tblVars, podVars>>

\* after the loop: return pdf_text.strip(), or return text_from_pages
ReturnPages ==
    /\ xpc = "loop"
    /\ ext_k = Len(ext_pages)
    /\ ext_returned' = [text |-> Strip(pdf_text), pages |-> text_from_pages]
    /\ xpc' = "returned"
    /\ UNCHANGED <<ext_impl, ext_doc, ext_pages, ext_fail, ext_k, ext_header_footer,
                   pdf_text, text_from_pages>>
    /\ UNCHANGED <<execVars, fmtVars, chunkVars, ttsVars, hfVars, paraVars, tblVars, podVars>>

NextExt == ExtractPage \/ PageRaises \/ ReturnPages

SpecExt == InitExt /\ [][NextExt]_vars

(***************************************************************************)
(* Properties of the reading of the pages.                                 *)
(***************************************************************************)
\* the text of the k-th page visited, empty when the page cannot be read
PageOrEmpty(k) ==
    LET p == ext_pages[k]
    IN  IF p \in ext_fail THEN <<>>
        ELSE IF ext_impl = "extract_formatted_text"
        THEN FormattedPage(ext_doc, p, ext_header_footer, FindTablesInPages(ext_pages))
        ELSE CleanedPage(ext_doc, p, ext_header_footer)

\* the text of the document with the pages that cannot be read left empty
RECURSIVE TextWithEmptyPages(_)
TextWithEmptyPages(k) ==
    IF k = 0 THEN <<>>
    ELSE TextWithEmptyPages(k - 1) \o PageOrEmpty(k)
           \o (IF ext_pages[k] + 1 < Len(ext_doc) THEN SEPARATOR_BETWEEN_PAGES ELSE <<>>)

\* C18 (as the specification states it): when the text of a page cannot be
\* read, that page alone comes out empty; the run is not aborted and the
\* text of the other pages is produced.
C18_Original_FailureEmptiesOnlyThatPage ==
    /\ xpc # "raised"
    /\ xpc = "returned" =>
          IF ext_impl = "extract_formatted_text"
          THEN ext_returned.text = Strip(TextWithEmptyPages(Len(ext_pages)))
          ELSE ext_returned.pages = [k \in 1..Len(ext_pages) |-> PageOrEmpty(k)]

\* C22 (as the specification states it): after the removal of the
\* boilerplate, no line of the text kept for a page is a member of the set
\* that detect_header_footer returned for the document.
C22_Original_NoBoilerplateLineLeft ==
    \A k \in 1..Len(text_from_pages) :
        \A i \in 1..Len(SplitLines(text_from_pages[k])) :
            SplitLines(text_from_pages[k])[i] \notin ext_header_footer

\* line i (from 1) was tagged in the first loop
WasTagged(i) == IsIn(i - 1, lines_ids_w_table_content)

\* the table of placeholder x was closed before line i: an earlier tagged
\* line came right after a line of x, had another tag, and kept it
ClosedBefore(x, i) ==
    \E j \in 2..(i - 1) :
        /\ WasTagged(j)
        /\ corrected_tags[j - 1] = x
        /\ first_tags[j] # x
        /\ corrected_tags[j] = first_tags[j]

\* line i is tagged and the line before it is the placeholder of another
\* table
FollowsOtherTable(i) ==
    /\ WasTagged(i)
    /\ i > 1
    /\ IsTableRef(corrected_tags[i - 1])
    /\ corrected_tags[i - 1] # first_tags[i]

\* C24 (as the specification states it): a line tagged for X right after a
\* placeholder of another occurrence Y is re-tagged to Y, unless X was
\* attributed to an earlier line of the page, and then it keeps X.
C24_Original_RetaggedUnlessAttributed ==
    rpc \in {"dedup", "done"} =>
        \A i \in 1..Len(first_tags) :
            FollowsOtherTable(i) =>
                corrected_tags[i] =
                    (IF \E j \in 1..(i - 1) : first_tags[j] = first_tags[i]
                     THEN first_tags[i] ELSE corrected_tags[i - 1])

\* C24 (amended): a line tagged for X right after a placeholder of another
\* occurrence Y keeps its tag X, unless the table X was closed earlier on
\* the page (an earlier line with another tag came right after a line of X
\* and kept its tag), and then the line is re-tagged to Y; no other line is
\* changed by the correction.
C24_RetaggedOnlyAfterClosedTable ==
    rpc \in {"dedup", "done"} =>
        /\ Len(corrected_tags) = Len(first_tags)
        /\ \A i \in 1..Len(first_tags) :
              corrected_tags[i] =
                  (IF FollowsOtherTable(i) /\ ClosedBefore(first_tags[i], i)
                   THEN corrected_tags[i - 1] ELSE first_tags[i])

\* lines of table 0, of table 1 and of table 0 again: the second line keeps
\* its tag and closes table 0, the third is re-tagged to table 1
C24_Witness ==
    /\ rpc = "dedup"
    /\ raw_lines = << <<"a">>, <<"c">>, <<"a">> >>
    /\ tables = <<TableA, TableB>>
    /\ first_tags = <<Placeholder(1, 0), Placeholder(1, 1), Placeholder(1, 0)>>
    /\ corrected_tags = <<Placeholder(1, 0), Placeholder(1, 1), Placeholder(1, 1)>>

\* the three loops taken one iteration at a time and the operators agree
ResolveTablesAgrees ==
    rpc = "done" => page_lines = ResolveTables(raw_lines, tables, tbl_page_id)

(***************************************************************************)
(* generate_podcast_from_file, setup_api_client and validate_input_pages,  *)
(* src/inference.py                                                        *)
(***************************************************************************)
\* SUPPORTED_FORMATS, src/utils/constants.py
SUPPORTED_FORMATS == {"application/pdf"}

\* the MIME types of the files tried
FileFormats == {"application/pdf", "text/plain"}

\* the keys tried: none, and one
ApiKeys == { <<>>, <<"k">> }

\* the values of the argument pages tried
PagesArgs ==
    { <<>>, <<"1">>, <<"2">>, <<" ", "1", ",", " ", "2">>, <<"1", "-", "2">>,
      <<"0">>, <<"2", "-", "1">>, <<"1", ",", "2", "-", "3">>, <<"x">> }

\* the files tried: of one page and of two
PodDocuments ==
    { << << <<"p">> >> >>,
      << << <<"p">> >>, << <<"q", " ", "r">>, <<"s">> >> >> }

\* the texts the remote model answers with
PodResponseTexts ==
    { <<>>, <<"A", ".">>, <<"A", ".", " ">> \o SILENCE_KEYWORD \o <<" ", "B", ".">> }

\* the messages the remote model answers with: the texts, and one that is
\* no JSON
PodResponses ==
    { [shape |-> "object", has_text |-> TRUE, extra |-> FALSE, text |-> t] :
          t \in PodResponseTexts }
    \cup { [shape |-> "not_json", has_text |-> FALSE, extra |-> FALSE, text |-> <<>>] }

\* every character of s is a digit, and there is one: int(s) does not raise
IsNumber(s) == s # <<>> /\ \A i \in 1..Len(s) : s[i] \in Digits

\* filter(lambda x: x != "", map(str.strip, pages.split(sep)))
PageParts(s, sep) == StrippedNonEmpty(StrSplit(s, <<sep>>))

\* validate_input_pages(pages): the list of page ids, None, or an exception
ValidateInputPages(arg) ==
    LET s == Strip(arg)
        raises == [ok |-> FALSE, none |-> FALSE, ids |-> <<>>]
        has(c) == \E i \in 1..Len(s) : s[i] = c
    IN  IF s = <<>> THEN [ok |-> TRUE, none |-> TRUE, ids |-> <<>>]
        ELSE IF has(",") /\ has("-") THEN raises
        ELSE IF has(",")
        THEN LET parts == PageParts(s, ",")
             IN  IF \E i \in 1..Len(parts) : ~ IsNumber(parts[i]) THEN raises
                 ELSE IF \E i \in 1..Len(parts) : DecInt(parts[i]) <= 0 THEN raises
                 ELSE [ok |-> TRUE, none |-> FALSE,
                       ids |-> [i \in 1..Len(parts) |-> DecInt(parts[i]) - 1]]
        ELSE IF has("-")
        THEN LET parts == PageParts(s, "-")
             IN  IF Len(parts) # 2 \/ \E i \in 1..Len(parts) : ~ IsNumber(parts[i])
                 THEN raises
                 ELSE LET start == DecInt(parts[1])
                          end == DecInt(parts[2])
                      IN  IF start <= 0 \/ end <= 0 \/ start >= end THEN raises
                          ELSE [ok |-> TRUE, none |-> FALSE,
                                ids |-> [i \in 1..(end - start + 1) |-> start - 2 + i]]
        ELSE IF ~ IsNumber(s) \/ DecInt(s) <= 0 THEN raises
        ELSE [ok |-> TRUE, none |-> FALSE, ids |-> <<DecInt(s) - 1>>]

\* `pages or range(len(pdf))`
PagesOrAll(pages, doc) ==
    IF pages.none \/ pages.ids = <<>> THEN Range(Len(doc)) ELSE pages.ids

MutantReturnsWhatThereIs(is_openai_error, e, chunks) ==
    IF chunks # <<>>
    THEN [kind |-> "returned", rate |-> SAMPLE_RATE, audio |-> Concat(chunks),
          message |-> "none"]
    ELSE [kind |-> "error", rate |-> 0, audio |-> <<>>, message |-> e]

\* the two except clauses: `except OpenAIError` raises gr.Error with the
\* message of the client, `except Exception` with str(e); what the run had
\* built is dropped
HandleException(is_openai_error, e, chunks) ==
    [kind |-> "error", rate |-> 0, audio |-> <<>>,
     message |-> IF is_openai_error THEN "Gemini API client is not available"
                 ELSE e]

\* the exception e leaves the try block
Raises(is_openai_error, e) ==
    /\ pod_result' = HandleException(is_openai_error, e, pod_audio_chunks)
    /\ errors_raised' = errors_raised + 1
    /\ gpc' = "raised"

InitPod ==
    /\ gpc = "start"
    /\ gemini_api_key \in ApiKeys
    /\ file_format \in FileFormats
    /\ pod_pages_arg \in PagesArgs
    /\ pod_doc \in PodDocuments
    /\ pod_duration \in PauseTenths
    /\ pod_pages = [none |-> TRUE, ids |-> <<>>]
    /\ pod_texts = <<>>
    /\ pod_page = 0
    /\ pod_narration = <<>>
    /\ pod_segments = <<>>
    /\ pod_audio_chunks = <<>>
    /\ pod_result = [kind |-> "none", rate |-> 0, audio |-> <<>>, message |-> "none"]
    /\ remote_calls = <<>>
    /\ pod_synth = <<>>
    /\ errors_raised = 0
    /\ ExecIdle
    /\ FmtIdle
    /\ ChunkIdle
    /\ TtsIdle
    /\ PdfIdle

\* setup_api_client: without a key OpenAIError is raised; with one the
\* client is built and client.models.list() is sent
SetupApiClient ==
    /\ gpc = "start"
    /\ IF gemini_api_key = <<>>
       THEN /\ Raises(TRUE, "OpenAIError")
            /\ UNCHANGED remote_calls
       ELSE /\ remote_calls' = Append(remote_calls, "models.list")
            /\ gpc' = "listing"
            /\ UNCHANGED <<pod_result, errors_raised>>
    /\ UNCHANGED <<gemini_api_key, file_format, pod_pages_arg, pod_doc, pod_duration,
                   pod_pages, pod_texts, pod_page, pod_narration, pod_segments,
                   pod_audio_chunks, pod_synth>>
    /\ UNCHANGED <<execVars, fmtVars, chunkVars, ttsVars, pdfVars>>

\* client.models.list() answers: the controller is built
ModelsListed ==
    /\ gpc = "listing"
    /\ gpc' = "tts"
    /\ UNCHANGED <<gemini_api_key, file_format, pod_pages_arg, pod_doc, pod_duration,
                   pod_pages, pod_texts, pod_page, pod_narration, pod_segments,
                   pod_audio_chunks, pod_result, remote_calls, pod_synth, errors_raised>>
    /\ UNCHANGED <<execVars, fmtVars, chunkVars, ttsVars, pdfVars>>

\* client.models.list() raises: `except Exception: raise OpenAIError(...)`
ModelsListFails ==
    /\ gpc = "listing"
    /\ Raises(TRUE, "OpenAIError")
    /\ UNCHANGED <<gemini_api_key, file_format, pod_pages_arg, pod_doc, pod_duration,
                   pod_pages, pod_texts, pod_page, pod_narration, pod_segments,
                   pod_audio_chunks, remote_calls, pod_synth>>
    /\ UNCHANGED <<execVars, fmtVars, chunkVars, ttsVars, pdfVars>>

\* tts_client = TTSModelClient(): the model is loaded from the local cache
SetupTts ==
    /\ gpc = "tts"
    /\ gpc' = "check"
    /\ UNCHANGED <<gemini_api_key, file_format, pod_pages_arg, pod_doc, pod_duration,
                   pod_pages, pod_texts, pod_page, pod_narration, pod_segments,
                   pod_audio_chunks, pod_result, remote_calls, pod_synth, errors_raised>>
    /\ UNCHANGED <<execVars, fmtVars, chunkVars, ttsVars, pdfVars>>

\* TTSModelClient() raises, as when the model file is not in the cache
SetupTtsFails ==
    /\ gpc = "tts"
    /\ Raises(FALSE, "StopIteration")
    /\ UNCHANGED <<gemini_api_key, file_format, pod_pages_arg, pod_doc, pod_duration,
                   pod_pages, pod_texts, pod_page, pod_narration, pod_segments,
                   pod_audio_chunks, remote_calls, pod_synth>>
    /\ UNCHANGED <<execVars, fmtVars, chunkVars, ttsVars, pdfVars>>

\* assert file_format in SUPPORTED_FORMATS
CheckFileFormat ==
    /\ gpc = "check"
    /\ IF file_format \in SUPPORTED_FORMATS
       THEN /\ gpc' = "pages"
            /\ UNCHANGED <<pod_result, errors_raised>>
       ELSE Raises(FALSE, "UnsupportedFileFormatError")
    /\ UNCHANGED <<gemini_api_key, file_format, pod_pages_arg, pod_doc, pod_duration,
                   pod_pages, pod_texts, pod_page, pod_narration, pod_segments,
                   pod_audio_chunks, remote_calls, pod_synth>>
    /\ UNCHANGED <<execVars, fmtVars, chunkVars, ttsVars, pdfVars>>

\* pages = validate_input_pages(pages=pages)
ValidatePages ==
    /\ gpc = "pages"
    /\ LET v == ValidateInputPages(pod_pages_arg)
       IN  IF v.ok
           THEN /\ pod_pages' = [none |-> v.none, ids |-> v.ids]
                /\ gpc' = "extract"
                /\ UNCHANGED <<pod_result, errors_raised>>
           ELSE /\ Raises(FALSE, "InvalidPages")
                /\ UNCHANGED pod_pages
    /\ UNCHANGED <<gemini_api_key, file_format, pod_pages_arg, pod_doc, pod_duration,
                   pod_texts, pod_page, pod_narration, pod_segments,
                   pod_audio_chunks, remote_calls, pod_synth>>
    /\ UNCHANGED <<execVars, fmtVars, chunkVars, ttsVars, pdfVars>>

\* text_from_pages = extract_text_from_pdf(...): a page id that is not in
\* the document raises
ExtractText ==
    /\ gpc = "extract"
    /\ LET ids == PagesOrAll(pod_pages, pod_doc)
           hf == DetectHeaderFooter(pod_doc, DEFAULT_MAX_SELECTED_LINES)
       IN  IF \E i \in 1..Len(ids) : ids[i] >= Len(pod_doc)
           THEN /\ Raises(FALSE, "IndexError")
                /\ UNCHANGED pod_texts
           ELSE /\ pod_texts' = [i \in 1..Len(ids) |-> CleanedPage(pod_doc, ids[i], hf)]
                /\ gpc' = "format"
                /\ UNCHANGED <<pod_result, errors_raised>>
    /\ UNCHANGED <<gemini_api_key, file_format, pod_pages_arg, pod_doc, pod_duration,
                   pod_pages, pod_page, pod_narration, pod_segments,
                   pod_audio_chunks, remote_calls, pod_synth>>
    /\ UNCHANGED <<execVars, fmtVars, chunkVars, ttsVars, pdfVars>>

\* format_text_for_tts, one page: send_request is called
PodSendRequest ==
    /\ gpc = "format"
    /\ pod_page < Len(pod_texts)
    /\ remote_calls' = Append(remote_calls, "chat.completions")
    /\ gpc' = "await"
    /\ UNCHANGED <<gemini_api_key, file_format, pod_pages_arg, pod_doc, pod_duration,
                   pod_pages, pod_texts, pod_page, pod_narration, pod_segments,
                   pod_audio_chunks, pod_result, pod_synth, errors_raised>>
    /\ UNCHANGED <<execVars, fmtVars, chunkVars, ttsVars, pdfVars>>

\* the response arrives: it is appended to the narration when it parses,
\* OpenAIInvalidResponseFormatError is raised when it does not
PodReceiveResponse(msg) ==
    /\ gpc = "await"
    /\ IF ParseFormattedPageText(msg).ok
       THEN /\ pod_narration' = AppendPage(pod_narration, ParseFormattedPageText(msg).text)
            /\ pod_page' = pod_page + 1
            /\ gpc' = "format"
            /\ UNCHANGED <<pod_result, errors_raised>>
       ELSE /\ Raises(FALSE, "OpenAIInvalidResponseFormatError")
            /\ UNCHANGED <<pod_narration, pod_page>>
    /\ UNCHANGED <<gemini_api_key, file_format, pod_pages_arg, pod_doc, pod_duration,
                   pod_pages, pod_texts, pod_segments, pod_audio_chunks, remote_calls,
                   pod_synth>>
    /\ UNCHANGED <<execVars, fmtVars, chunkVars, ttsVars, pdfVars>>

\* send_request raises OpenAIAPICallError, which is no OpenAIError
PodRequestFails ==
    /\ gpc = "await"
    /\ Raises(FALSE, "OpenAIAPICallError")
    /\ UNCHANGED <<gemini_api_key, file_format, pod_pages_arg, pod_doc, pod_duration,
                   pod_pages, pod_texts, pod_page, pod_narration, pod_segments,
                   pod_audio_chunks, remote_calls, pod_synth>>
    /\ UNCHANGED <<execVars, fmtVars, chunkVars, ttsVars, pdfVars>>

\* format_text_for_tts returns; convert_text_to_speech splits the narration
StartSpeech ==
    /\ gpc = "format"
    /\ pod_page = Len(pod_texts)
    /\ pod_segments' = SplitByPauses(pod_narration)
    /\ gpc' = "speech"
    /\ UNCHANGED <<gemini_api_key, file_format, pod_pages_arg, pod_doc, pod_duration,
                   pod_pages, pod_texts, pod_page, pod_narration, pod_audio_chunks,
                   pod_result, remote_calls, pod_synth, errors_raised>>
    /\ UNCHANGED <<execVars, fmtVars, chunkVars, ttsVars, pdfVars>>

\* one segment is synthesized
PodSynthesize ==
    /\ gpc = "speech"
    /\ pod_segments # <<>>
    /\ pod_synth' = Append(pod_synth, Head(pod_segments))
    /\ pod_audio_chunks' = Append(pod_audio_chunks,
          IF SilenceBefore(Len(pod_audio_chunks))
          THEN Zeros(SilenceSamples(pod_duration)) \o TextToSpeech(Head(pod_segments))
          ELSE TextToSpeech(Head(pod_segments)))
    /\ pod_segments' = Tail(pod_segments)
    /\ UNCHANGED <<gpc, gemini_api_key, file_format, pod_pages_arg, pod_doc, pod_duration,
                   pod_pages, pod_texts, pod_page, pod_narration, pod_result,
                   remote_calls, errors_raised>>
    /\ UNCHANGED <<execVars, fmtVars, chunkVars, ttsVars, pdfVars>>

\* the synthesis of a segment raises
PodSynthesisFails ==
    /\ gpc = "speech"
    /\ pod_segments # <<>>
    /\ Raises(FALSE, "SynthesisError")
    /\ UNCHANGED <<gemini_api_key, file_format, pod_pages_arg, pod_doc, pod_duration,
                   pod_pages, pod_texts, pod_page, pod_narration, pod_segments,
                   pod_audio_chunks, remote_calls, pod_synth>>
    /\ UNCHANGED <<execVars, fmtVars, chunkVars, ttsVars, pdfVars>>

\* every segment is synthesized: np.concatenate(audio_chunks), which raises
\* on an empty list; return SAMPLE_RATE, audio
PodReturn ==
    /\ gpc = "speech"
    /\ pod_segments = <<>>
    /\ IF pod_audio_chunks # <<>>
       THEN /\ pod_result' = [kind |-> "returned", rate |-> SAMPLE_RATE,
                              audio |-> Concat(pod_audio_chunks), message |-> "none"]
            /\ gpc' = "returned"
            /\ UNCHANGED errors_raised
       ELSE Raises(FALSE, "ValueError")
    /\ UNCHANGED <<gemini_api_key, file_format, pod_pages_arg, pod_doc, pod_duration,
                   pod_pages, pod_texts, pod_page, pod_narration, pod_segments,
                   pod_audio_chunks, remote_calls, pod_synth>>
    /\ UNCHANGED <<execVars, fmtVars, chunkVars, ttsVars, pdfVars>>

NextPod ==
    \/ SetupApiClient
    \/ ModelsListed
    \/ ModelsListFails
    \/ SetupTts
    \/ SetupTtsFails
    \/ CheckFileFormat
    \/ ValidatePages
    \/ ExtractText
    \/ PodSendRequest
    \/ \E msg \in PodResponses : PodReceiveResponse(msg)
    \/ PodRequestFails
    \/ StartSpeech
    \/ PodSynthesisFails
    \/ PodSynthesize
    \/ PodReturn

SpecPod == InitPod /\ [][NextPod]_vars

\* every call made is answered or fails, and the run goes on
SpecPodFair == SpecPod /\ WF_vars(NextPod)


\* C19 as the specification states it: a run on a file whose type is not
\* in SUPPORTED_FORMATS has made no remote call, at any point of the run
C19_Original_RejectedBeforeAnyRemoteCall ==
    file_format \notin SUPPORTED_FORMATS => remote_calls = <<>>

\* the run is over
PodEnded == gpc \in {"returned", "raised"}

\* the waveform of a whole narration: every segment, with the silence before
\* each but the first
WholeWaveform(spoken, tenths) ==
    LET segs == SplitByPauses(spoken)
    IN  Concat([i \in 1..Len(segs) |->
                   IF i > 1 THEN Zeros(SilenceSamples(tenths)) \o TextToSpeech(segs[i])
                   ELSE TextToSpeech(segs[i])])

\* one outcome, and a whole one
OneWholeOutcome ==
    /\ errors_raised <= 1
    /\ (pod_result.kind = "none") = ~ PodEnded
    /\ gpc = "returned" =>
          /\ pod_result.kind = "returned"
          /\ errors_raised = 0
          /\ pod_result.rate = SAMPLE_RATE
          /\ pod_page = Len(pod_texts)
          /\ CountOf("chat.completions", remote_calls) = Len(pod_texts)
          /\ pod_segments = <<>>
          /\ pod_synth = SplitByPauses(pod_narration)
          /\ pod_result.audio = WholeWaveform(pod_narration, pod_duration)
          /\ pod_result.audio # <<>>
    /\ gpc = "raised" =>
          /\ pod_result.kind = "error"
          /\ errors_raised = 1
          /\ pod_result.audio = <<>>
    /\ pod_synth # <<>> =>
          /\ pod_page = Len(pod_texts)
          /\ CountOf("chat.completions", remote_calls) = Len(pod_texts)

\* C20: every run of generate_podcast_from_file ends, and ends in exactly one
\* of two ways: it returns SAMPLE_RATE and the waveform of the whole
\* narration, after every page was reformatted and every segment was
\* synthesized, or it raises one gr.Error and returns no audio, whatever was
\* synthesized by then; no segment is synthesized before every page was
\* reformatted
C20_OneOutcome == []OneWholeOutcome /\ <>PodEnded

\* a run of two pages fails after the audio of a first segment was made
C20_Witness ==
    /\ gpc = "raised"
    /\ Len(pod_texts) = 2
    /\ pod_audio_chunks # <<>>
    /\ pod_segments # <<>>

====
